---- MODULE Spec2Model ----
(***************************************************************************)
(* velocity-js: the foreground prefetch scheduler (class Velocity) and the *)
(* service worker's cache partitions (velocity-worker.js).                 *)
(*                                                                         *)
(* Spec        the foreground Admission Scheduler: processLink,            *)
(*             processQueue, prefetchResource, invalidateCache, the clock. *)
(* SpecPause   the same with pausePrefetching and resumePrefetching.       *)
(* SpecStore   the foreground IndexedDB store: storeInCache and            *)
(*             cleanupOldEntries.                                          *)
(* SpecWorker  the worker's Cache Store partitions by entry count:         *)
(*             safeCachePut, manageCacheSize, the periodic cleanup.        *)
(* SpecEvict   the worker's Cache Store by entry: puts, hits and the       *)
(*             eviction score on a partition that is nearly full.          *)
(* SpecFetch   the worker's Fetch Strategy Engine: classifyRequest,        *)
(*             handleFetchWithStrategy, the three strategies and the       *)
(*             safeCachePut they call, one action per task.                *)
(* SpecFault   the same with requests that go round the cache and cache    *)
(*             reads that fail.                                            *)
(* SpecAdmit   url validation: processLink and the worker's PREFETCH       *)
(*             handler under urls that are not valid.                      *)
(* SpecChannel serviceWorkerPrefetch against handlePrefetchRequest and     *)
(*             executePrefetch over the BroadcastChannel.                  *)
(* SpecDestroy an instance that is destroyed while timers are armed.       *)
(* SpecSanitize the content storeInCache and safeCachePut persist.         *)
(* SpecStats   getCacheStats and the worker's GET_CACHE_STATS handler.     *)
(* SpecRace    safeCachePut and manageCacheSize await by await.            *)
(* SpecCeiling the worker's prefetch ceiling under critical pages.         *)
(* SpecRetry   fetchWithTimeout: the timeout, the one retry, the backoff.  *)
(* SpecOverlap storeInCache calls that overlap on the object store.        *)
(* SpecPriority the four handlers, calculatePriority and the analytics.    *)
(* SpecAnswer  PREFETCH messages against the worker's queue, with          *)
(*             fairness of the handlers.                                   *)
(* SpecStored  every path of the worker that reaches safeCachePut.         *)
(* SpecLegs    prefetchResource with the results of its legs told apart.   *)
(*                                                                         *)
(* JavaScript runs one task at a time, so one action is one task (an event *)
(* handler run to its first suspended await, or the continuation of an     *)
(* await).  Promise reactions that are already due (microtasks) run before *)
(* any other task: while one is due, no other action of the scheduler is  *)
(* enabled.                                                                *)
(***************************************************************************)
EXTENDS Integers, Sequences, FiniteSets, Bags, TLC

\* ------------------------------------------------------------------ bounds
\* The clock advances at most MaxTicks times by TickMs (a short delay, within
\* which no timeout of an execution in flight comes due) and at most MaxWaits
\* times by RECENT_MS (a long wait).
MaxTicks == 1
MaxWaits == 1
\* The worker model performs at most MaxCacheOps cache operations.
MaxCacheOps == 4
\* The worker's clock advances at most MaxSwTicks times.
MaxSwTicks == 2
\* storeInCache puts at most MaxStores entries.
MaxStores == 3
\* The worker handles at most MaxRequests fetch events.
MaxRequests == 2
\* At most MaxMessages PREFETCH messages are posted.
MaxMessages == 2

\* ------------------------------------------------------- program constants
\* DEFAULT_CONFIG.MAX_CONCURRENT_PREFETCH
MAX_CONCURRENT_PREFETCH == 3
\* prefetchResource: (Date.now() - existing.timestamp) < 60000
RECENT_MS == 60000
\* DEFAULT_CONFIG.PREFETCH_TIMEOUT
PREFETCH_TIMEOUT == 3000
\* manageCacheSize: keys.length - maxSize + 5
EVICT_BUFFER == 5
\* manageCacheSize: SW_CONFIG.MAX_CACHE_SIZES[...] || 50
FALLBACK_MAX_SIZE == 50
\* SW_CONFIG.PERFORMANCE_BUDGET
PERFORMANCE_BUDGET == 50
\* DEFAULT_CONFIG.MAX_CACHED_LINKS
MAX_CACHED_LINKS == 100
\* cleanupOldEntries: accessCount * 86400000
ACCESS_BOOST == 86400000
\* processPrefetchQueue: Math.min(3, ...)
WORKER_BATCH == 3
\* SW_CONFIG.TIMEOUTS.FETCH and SW_CONFIG.STRATEGY_TIMEOUTS.NETWORK_FIRST
FETCH_TIMEOUT == 5000
NETWORK_FIRST_TIMEOUT == 3000
\* isResourceStale: maxAge = 3600000 ms, in minutes
MAX_AGE_MINUTES == 60

\* A short delay: well under PREFETCH_TIMEOUT, also MaxTicks + 1 of them.
TickMs == PREFETCH_TIMEOUT \div 10

\* ------------------------------------------------------------------ inputs
\* A url as the handlers receive it (link.href): whether the URL parser
\* accepts it, its scheme, the host its origin is taken from ("self" is the
\* page's, which is served over https), its path and its fragment.
Paths == {"/a", "/b"}

RawUrl(scheme, origin, path, fragment) ==
    [wellFormed |-> TRUE, scheme |-> scheme, origin |-> origin, path |-> path,
     fragment |-> fragment]

RawUrls == { RawUrl("https", "self",  "/a", ""),
             RawUrl("https", "self",  "/a", "#top"),
             RawUrl("https", "self",  "/b", ""),
             RawUrl("https", "other", "/a", "") }

\* Urls that are malformed ("https://"), of another origin (another host, or
\* the page's host over http) or of a scheme that is not allowed
\* (javascript:alert(1), data:text/html, blob:https://self/id, vbscript:x,
\* ftp://self/a).
BadUrls == { [RawUrl("https", "", "", "") EXCEPT !.wellFormed = FALSE],
            RawUrl("https", "other", "/a", ""),
            RawUrl("http", "self", "/a", ""),
            RawUrl("javascript", "", "alert(1)", ""),
            RawUrl("data", "", "text/html", ""),
            RawUrl("blob", "self", "/id", ""),
            RawUrl("vbscript", "", "x", ""),
            RawUrl("ftp", "self", "/a", "") }

\* (trigger, priority) pairs the event handlers pass to processLink: here
\* calculatePriority(link, trigger) of a link without boosts, under the
\* default PRIORITY_WEIGHTS, for the triggers hover and click.
Submissions == { [trigger |-> "hover", priority |-> 5],
                 [trigger |-> "click", priority |-> 10] }

VARIABLES
    prefetchQueue,      \* Map url -> item, as the sequence of its entries in insertion order
    prefetchedUrls,     \* Map url -> {timestamp, trigger, priority}; NoEntry when absent
    prefetchSemaphore,  \* this.prefetchSemaphore
    isPaused,           \* this.isPaused
    executing,          \* bag of prefetchResource executions dispatched and not yet settled
    now,                \* Date.now()
    cacheSize,          \* worker: number of entries (cache.keys().length) of each partition
    performanceCounter, \* worker: performanceCounter
    cacheOps,           \* worker: cache operations run so far
    caches,             \* worker: the entries of each partition, in the order of cache.keys()
    cacheMetrics,       \* worker: Map url -> metrics; a url outside its DOMAIN has none
    swNow,              \* worker: Date.now(), in whole minutes
    tasks,              \* worker: bag of the strategy executions, revalidations and puts in progress
    lastResponse,       \* worker: the response a strategy returned last, numbered
    otherOps,           \* worker: operations in progress that `tasks` does not follow
    requests,           \* worker: fetch events handled so far
    db,                 \* the object store of IndexedDB: url -> {lastAccessed, accessCount}
    storeName,          \* this.config.STORE_NAME
    cleanups,           \* cleanupOldEntries calls of storeInCache that have not run yet
    stores,             \* storeInCache puts made so far
    storing,            \* storeInCache calls that have not put yet, those with a transaction last
    urlAnalytics,       \* this.urlAnalytics: Map href -> visitCount
    legResults,         \* what Promise.allSettled gave the execution that recorded each url last
    outcomes,           \* the promise of each serviceWorkerPrefetch call, by messageId
    listeners,          \* messageIds whose handleResponse listens on the channel
    timers,             \* messageIds whose setTimeout of serviceWorkerPrefetch is armed
    toWorker,           \* PREFETCH messages posted and not yet delivered to the worker
    toPage,             \* messages posted to the page and not yet delivered
    swQueue,            \* worker: prefetchQueue, the Map's entries in insertion order
    swPrefetching,      \* worker: executePrefetch calls in progress
    destroyed           \* destroy() has been called on the instance

fgVars == <<prefetchQueue, prefetchedUrls, prefetchSemaphore, isPaused, executing, now>>
entryVars == <<caches, cacheMetrics, swNow>>
fetchVars == <<tasks, lastResponse, otherOps, requests>>
swVars == <<cacheSize, performanceCounter, cacheOps, caches, cacheMetrics, swNow,
            tasks, lastResponse, otherOps, requests>>
dbVars == <<db, storeName, cleanups, stores, storing, urlAnalytics, legResults>>
coordVars == <<outcomes, listeners, timers, toWorker, toPage, swQueue, swPrefetching, destroyed>>
vars == <<prefetchQueue, prefetchedUrls, prefetchSemaphore, isPaused, executing, now,
          cacheSize, performanceCounter, cacheOps, caches, cacheMetrics, swNow,
          tasks, lastResponse, otherOps, requests,
          db, storeName, cleanups, stores, storing, urlAnalytics, legResults,
          outcomes, listeners, timers, toWorker, toPage, swQueue, swPrefetching, destroyed>>

\* =================================================== foreground: Velocity

\* prefetchedUrls.get(url) === undefined
NoEntry == [timestamp |-> -1, trigger |-> "none", priority |-> -1]

\* window.location: the page's scheme and origin
PAGE_SCHEME == "https"
PAGE_ORIGIN == <<"https", "self">>

\* new URL(url, base).origin: scheme and host for http(s), the origin of the
\* inner url for blob:, the opaque origin otherwise
originOf(raw) ==
    IF raw.scheme \in {"https", "http"} THEN <<raw.scheme, raw.origin>>
    ELSE IF raw.scheme = "blob" THEN <<"https", raw.origin>>
    ELSE <<"null", "null">>

\* url.includes(scheme + ':'), for the urls of the model
includes(raw, scheme) == raw.wellFormed /\ raw.scheme = scheme

\* isValidUrl without the comparison of origins
isValidUrlAnyOrigin(raw) ==
    /\ raw.wellFormed
    /\ raw.scheme = PAGE_SCHEME
    /\ \A scheme \in {"javascript", "data", "blob", "vbscript"} : ~includes(raw, scheme)

\* isValidUrl: the url parses, has the page's origin and protocol, and
\* holds none of javascript:, data:, blob:, vbscript:
isValidUrl(raw) ==
    /\ raw.wellFormed
    /\ originOf(raw) = PAGE_ORIGIN
    /\ raw.scheme = PAGE_SCHEME
    /\ \A scheme \in {"javascript", "data", "blob", "vbscript"} : ~includes(raw, scheme)

\* sanitizeUrl: parsed.href without <>"'` and without the fragment
sanitizeUrl(raw) == raw.path

\* Map.prototype.set on the queue: an existing key keeps its position and gets
\* the new value, a new key is appended.
QueueSet(queue, item) ==
    IF \E i \in DOMAIN queue : queue[i].url = item.url
    THEN [i \in DOMAIN queue |-> IF queue[i].url = item.url THEN item ELSE queue[i]]
    ELSE Append(queue, item)

\* Map.prototype.delete on the queue
QueueDelete(queue, url) == SelectSeq(queue, LAMBDA e : e.url # url)

\* Array.prototype.sort is stable: insert an item behind every item whose
\* priority is at least its own.
RECURSIVE InsertByPriority(_, _)
InsertByPriority(sorted, item) ==
    IF sorted = <<>> THEN <<item>>
    ELSE IF Head(sorted).priority >= item.priority
         THEN <<Head(sorted)>> \o InsertByPriority(Tail(sorted), item)
         ELSE <<item>> \o sorted

\* processQueue: Array.from(queue.entries()).sort(([,a],[,b]) => b.priority - a.priority)
RECURSIVE SortedQueue(_)
SortedQueue(queue) ==
    IF queue = <<>> THEN <<>>
    ELSE InsertByPriority(SortedQueue(SubSeq(queue, 1, Len(queue) - 1)), queue[Len(queue)])

\* Array.prototype.slice(0, n)
Slice(seq, n) == SubSeq(seq, 1, IF Len(seq) < n THEN Len(seq) ELSE n)

\* A prefetchResource that lacks the check for an entry served recently.
prefetchResourceStartUnchecked(item, served, clock) ==
    [url |-> item.url, trigger |-> item.trigger, priority |-> item.priority,
     timestamp |-> item.timestamp, phase |-> "prefetching"]

\* prefetchResource up to its first await: an entry served less than 60 s ago
\* makes it return at once ("returned": only the .finally reaction is due);
\* otherwise the native prefetch link is appended and, with the channel ready,
\* the PREFETCH message posted ("prefetching": awaiting Promise.allSettled).
prefetchResourceStart(item, served, clock) ==
    LET existing == served[item.url] IN
    [url |-> item.url, trigger |-> item.trigger, priority |-> item.priority,
     timestamp |-> item.timestamp,
     phase |-> IF existing # NoEntry /\ (clock - existing.timestamp) < RECENT_MS
               THEN "returned" ELSE "prefetching"]

\* The for loop of processQueue over the sorted slice.
RECURSIVE DrainLoop(_, _, _, _, _, _)
DrainLoop(batch, queue, semaphore, started, served, clock) ==
    IF batch = <<>> \/ semaphore >= MAX_CONCURRENT_PREFETCH
    THEN [queue |-> queue, semaphore |-> semaphore, started |-> started]
    ELSE DrainLoop(Tail(batch), QueueDelete(queue, Head(batch).url), semaphore + 1,
                   Append(started, prefetchResourceStart(Head(batch), served, clock)),
                   served, clock)

\* A processQueue that dispatches the whole slice whatever the semaphore says.
RECURSIVE DrainLoopNoCeiling(_, _, _, _, _, _)
DrainLoopNoCeiling(batch, queue, semaphore, started, served, clock) ==
    IF batch = <<>>
    THEN [queue |-> queue, semaphore |-> semaphore, started |-> started]
    ELSE DrainLoopNoCeiling(Tail(batch), QueueDelete(queue, Head(batch).url), semaphore + 1,
                   Append(started, prefetchResourceStart(Head(batch), served, clock)),
                   served, clock)

processQueueNoCeiling(queue, semaphore, served, clock) ==
    DrainLoopNoCeiling(Slice(SortedQueue(queue), MAX_CONCURRENT_PREFETCH),
                       queue, semaphore, <<>>, served, clock)

\* processQueue: nothing at the ceiling; otherwise the loop over the first
\* MAX_CONCURRENT_PREFETCH entries of the sorted queue.  isPaused is not read.
processQueue(queue, semaphore, served, clock) ==
    IF semaphore >= MAX_CONCURRENT_PREFETCH
    THEN [queue |-> queue, semaphore |-> semaphore, started |-> <<>>]
    ELSE DrainLoop(Slice(SortedQueue(queue), MAX_CONCURRENT_PREFETCH),
                   queue, semaphore, <<>>, served, clock)

\* An execution as the bag holds it.  While its legs are in flight it is
\* known by its item (url, trigger, priority), which prefetchedUrls.set will
\* read.  After that, and in an execution that returned at once, nothing the
\* execution still reads of its item bears on a variable of this model, and
\* the bag keeps its phase alone.
Exec(url, trigger, priority, phase) ==
    IF phase = "prefetching"
    THEN [url |-> url, trigger |-> trigger, priority |-> priority, phase |-> phase]
    ELSE [url |-> "", trigger |-> "", priority |-> 0, phase |-> phase]

RECURSIVE StartedBag(_)
StartedBag(started) ==
    IF started = <<>> THEN EmptyBag
    ELSE SetToBag({Exec(Head(started).url, Head(started).trigger,
                        Head(started).priority, Head(started).phase)})
         (+) StartedBag(Tail(started))

\* A .finally reaction of an execution that returned at once is due.
MicrotaskDue == \E e \in BagToSet(executing) : e.phase = "returned"

\* DEFAULT_CONFIG.STORE_NAME
DEFAULT_STORE_NAME == "preloadedContent"

\* The scheduler's fields after the constructor
InitScheduler ==
    /\ prefetchQueue = <<>>
    /\ prefetchedUrls = [u \in Paths |-> NoEntry]
    /\ prefetchSemaphore = 0
    /\ isPaused = FALSE
    /\ executing = EmptyBag
    /\ now = 0

\* No serviceWorkerPrefetch call yet, no message posted, the worker's
\* prefetchQueue empty, the instance in use.
InitChannelIdle ==
    /\ outcomes = <<>>
    /\ listeners = {}
    /\ timers = {}
    /\ toWorker = {}
    /\ toPage = {}
    /\ swQueue = <<>>
    /\ swPrefetching = EmptyBag
    /\ destroyed = FALSE

\* The constructor under the default configuration, the object store empty.
InitForeground ==
    /\ InitScheduler
    /\ InitChannelIdle
    /\ db = [url \in {} |-> 0]
    /\ storeName = DEFAULT_STORE_NAME
    /\ cleanups = 0
    /\ stores = 0
    /\ storing = <<>>
    /\ urlAnalytics = [href \in {} |-> 0]
    /\ legResults = [url \in {} |-> <<>>]

\* processLink: if (existing && existing.priority >= priority) return
Superseded(existing, priority) ==
    existing # NoEntry /\ existing.priority >= priority

\* What processLink decides for a submission: "rejected" for a url that is not
\* valid, "superseded" when it returns on the entry of prefetchedUrls,
\* "accepted" when it goes on to prefetchQueue.set.
Admission(raw, priority, served) ==
    IF ~isValidUrl(raw) THEN "rejected"
    ELSE IF Superseded(served[sanitizeUrl(raw)], priority) THEN "superseded"
    ELSE "accepted"

\* The item processLink puts on the queue.
QueueItem(raw, sub, clock) ==
    [url |-> sanitizeUrl(raw), trigger |-> sub.trigger, priority |-> sub.priority,
     timestamp |-> clock]

\* An accepted processLink: prefetchQueue.set, then processQueue.
SubmitAccepted(raw, sub, queue, semaphore, served, clock) ==
    processQueue(QueueSet(queue, QueueItem(raw, sub, clock)), semaphore, served, clock)

\* processLink(url, trigger, priority), with the processQueue it awaits:
\* what it does to the scheduler.
processLink(raw, sub) ==
    /\ ~MicrotaskDue
    /\ IF Admission(raw, sub.priority, prefetchedUrls) # "accepted"
       THEN UNCHANGED <<prefetchQueue, prefetchSemaphore, executing>>
       ELSE LET d == SubmitAccepted(raw, sub, prefetchQueue, prefetchSemaphore,
                                    prefetchedUrls, now)
            IN  /\ prefetchQueue' = d.queue
                /\ prefetchSemaphore' = d.semaphore
                /\ executing' = executing (+) StartedBag(d.started)
    /\ UNCHANGED <<prefetchedUrls, isPaused, now>>
    /\ UNCHANGED swVars
    /\ UNCHANGED coordVars

\* A call of processLink(url, trigger, priority) on its own.
ProcessLink(raw, sub) ==
    /\ processLink(raw, sub)
    /\ UNCHANGED dbVars

\* The .finally reaction of an execution that returned on the 60 s check.
SettleReturned(e) ==
    /\ e \in BagToSet(executing)
    /\ e.phase = "returned"
    /\ executing' = executing (-) SetToBag({e})
    /\ prefetchSemaphore' = prefetchSemaphore - 1
    /\ UNCHANGED <<prefetchQueue, prefetchedUrls, isPaused, now>>
    /\ UNCHANGED swVars
    /\ UNCHANGED dbVars
    /\ UNCHANGED coordVars

\* Promise.allSettled resolves (each leg loaded, failed or timed out):
\* prefetchedUrls.set, then storeInCache starts its content fetch.
LegsSettled(e) ==
    /\ ~MicrotaskDue
    /\ e \in BagToSet(executing)
    /\ e.phase = "prefetching"
    /\ prefetchedUrls' = [prefetchedUrls EXCEPT ![e.url] =
                            [timestamp |-> now, trigger |-> e.trigger, priority |-> e.priority]]
    /\ executing' = (executing (-) SetToBag({e}))
                    (+) SetToBag({Exec(e.url, e.trigger, e.priority, "storing")})
    /\ UNCHANGED <<prefetchQueue, prefetchSemaphore, isPaused, now>>
    /\ UNCHANGED swVars
    /\ UNCHANGED dbVars
    /\ UNCHANGED coordVars

\* storeInCache settles, the slot not released
StoreSettledHoldingSlot(e) ==
    /\ ~MicrotaskDue
    /\ e \in BagToSet(executing)
    /\ e.phase = "storing"
    /\ executing' = executing (-) SetToBag({e})
    /\ UNCHANGED <<prefetchQueue, prefetchedUrls, prefetchSemaphore, isPaused, now>>
    /\ UNCHANGED swVars
    /\ UNCHANGED dbVars
    /\ UNCHANGED coordVars

\* storeInCache settles (stored, or its error caught); prefetchResource ends
\* and its .finally reaction releases the slot.  No drain follows.
StoreSettled(e) ==
    /\ ~MicrotaskDue
    /\ e \in BagToSet(executing)
    /\ e.phase = "storing"
    /\ executing' = executing (-) SetToBag({e})
    /\ prefetchSemaphore' = prefetchSemaphore - 1
    /\ UNCHANGED <<prefetchQueue, prefetchedUrls, isPaused, now>>
    /\ UNCHANGED swVars
    /\ UNCHANGED dbVars
    /\ UNCHANGED coordVars

\* pausePrefetching (handleVisibilityChange with the document hidden)
PausePrefetching ==
    /\ ~MicrotaskDue
    /\ isPaused' = TRUE
    /\ UNCHANGED <<prefetchQueue, prefetchedUrls, prefetchSemaphore, executing, now>>
    /\ UNCHANGED swVars
    /\ UNCHANGED dbVars
    /\ UNCHANGED coordVars

\* resumePrefetching (handleVisibilityChange with the document visible)
ResumePrefetching ==
    /\ ~MicrotaskDue
    /\ isPaused' = FALSE
    /\ LET d == processQueue(prefetchQueue, prefetchSemaphore, prefetchedUrls, now)
       IN  /\ prefetchQueue' = d.queue
           /\ prefetchSemaphore' = d.semaphore
           /\ executing' = executing (+) StartedBag(d.started)
    /\ UNCHANGED <<prefetchedUrls, now>>
    /\ UNCHANGED swVars
    /\ UNCHANGED dbVars
    /\ UNCHANGED coordVars

\* invalidateCache(urlPattern) for a pattern that matches one stored url: the
\* cursor deletes the record of the store and the entry of prefetchedUrls.
\* A pattern that matches no stored url changes nothing.
InvalidateCache(url) ==
    /\ ~MicrotaskDue
    /\ prefetchedUrls[url] # NoEntry
    /\ prefetchedUrls' = [prefetchedUrls EXCEPT ![url] = NoEntry]
    /\ UNCHANGED <<prefetchQueue, prefetchSemaphore, isPaused, executing, now>>
    /\ UNCHANGED swVars
    /\ UNCHANGED dbVars
    /\ UNCHANGED coordVars

\* A short delay passes.
Tick ==
    /\ ~MicrotaskDue
    /\ now < (MaxTicks * TickMs) + (MaxWaits * RECENT_MS)
    /\ now % RECENT_MS < MaxTicks * TickMs
    /\ now' = now + TickMs
    /\ UNCHANGED <<prefetchQueue, prefetchedUrls, prefetchSemaphore, isPaused, executing>>
    /\ UNCHANGED swVars
    /\ UNCHANGED dbVars
    /\ UNCHANGED coordVars

\* 60 s pass.  The timeouts of nativePrefetch and serviceWorkerPrefetch
\* (PREFETCH_TIMEOUT) come due long before, so no execution still awaits its legs.
LongWait ==
    /\ ~MicrotaskDue
    /\ \A e \in BagToSet(executing) : e.phase # "prefetching"
    /\ now \div RECENT_MS < MaxWaits
    /\ now' = now + RECENT_MS
    /\ UNCHANGED <<prefetchQueue, prefetchedUrls, prefetchSemaphore, isPaused, executing>>
    /\ UNCHANGED swVars
    /\ UNCHANGED dbVars
    /\ UNCHANGED coordVars

ExecKinds == { Exec(u, s.trigger, s.priority, ph) :
                  u \in Paths, s \in Submissions, ph \in {"returned", "prefetching", "storing"} }

\* ============================================ worker: velocity-worker.js

\* The four partitions, by their key in SW_CONFIG.
Partitions == {"STATIC", "DYNAMIC", "PREFETCH", "API"}

\* SW_CONFIG.CACHE_NAMES.  A name is held as the list of its segments between
\* the '-' signs, which is what cacheName.split('-') makes of it.
CACHE_NAMES ==
    [STATIC   |-> <<"velocity", "static", "v1">>,
     DYNAMIC  |-> <<"velocity", "dynamic", "v1">>,
     PREFETCH |-> <<"velocity", "prefetch", "v1">>,
     API      |-> <<"velocity", "api", "v1">>]

\* updateCacheInBackground: cache.name || 'unknown'; a Cache has no name.
UNKNOWN_NAME == <<"unknown">>

\* SW_CONFIG.MAX_CACHE_SIZES
MAX_CACHE_SIZES == [STATIC |-> 50, DYNAMIC |-> 100, PREFETCH |-> 200, API |-> 30]

\* String.prototype.toUpperCase on the segments that occur
toUpperCase(str) ==
    CASE str = "velocity" -> "VELOCITY"
      [] str = "static"   -> "STATIC"
      [] str = "dynamic"  -> "DYNAMIC"
      [] str = "prefetch" -> "PREFETCH"
      [] str = "api"      -> "API"
      [] str = "v1"       -> "V1"
      [] str = "unknown"  -> "UNKNOWN"
      [] OTHER            -> str

\* Array.prototype.pop on the segments: the last one
pop(segments) == segments[Len(segments)]

\* manageCacheSize: SW_CONFIG.MAX_CACHE_SIZES[cacheName.split('-').pop().toUpperCase()] || 50
maxSizeOf(cacheName) ==
    LET key == toUpperCase(pop(cacheName))
    IN  IF key \in DOMAIN MAX_CACHE_SIZES THEN MAX_CACHE_SIZES[key] ELSE FALLBACK_MAX_SIZE

\* manageCacheSize: the number of entries it deletes from a cache of `count`
\* keys: none under maxSize, else keysWithMetrics.slice(0, count - maxSize + 5).
evictCount(count, cacheName) ==
    LET maxSize == maxSizeOf(cacheName)
        want == (count - maxSize) + EVICT_BUFFER
    IN  IF count >= maxSize THEN (IF want > count THEN count ELSE want) ELSE 0

\* Cache contents a worker can start with: each partition empty, or filled by
\* earlier puts up to two entries short of the smaller of its configured
\* capacity and the size manageCacheSize applies to it (no put has evicted yet).
StartSizes(p) ==
    LET nearest == IF MAX_CACHE_SIZES[p] < maxSizeOf(CACHE_NAMES[p])
                   THEN MAX_CACHE_SIZES[p] ELSE maxSizeOf(CACHE_NAMES[p])
    IN  {0, nearest - 2}

\* Date.now() when the model starts, in whole minutes since the epoch.
START_MINUTES == 29800000

\* new Map()
EmptyMap == [url \in {} |-> 0]

\* No response returned yet
NoResponse == [seq |-> 0, url |-> "", via |-> "", source |-> "none", status |-> 0,
               body |-> 0, stamped |-> FALSE, version |-> ""]

\* No fetch event handled yet
InitFetchIdle ==
    /\ tasks = EmptyBag
    /\ lastResponse = NoResponse
    /\ otherOps = 0
    /\ requests = 0

\* The worker with nothing cached: every cache open and empty (initializeCaches),
\* cacheMetrics an empty Map.
InitWorkerIdle ==
    /\ InitFetchIdle
    /\ cacheSize = [p \in Partitions |-> 0]
    /\ performanceCounter = 0
    /\ cacheOps = 0
    /\ caches = [p \in Partitions |-> <<>>]
    /\ cacheMetrics = EmptyMap
    /\ swNow = START_MINUTES

InitWorker ==
    /\ InitFetchIdle
    /\ cacheSize \in [Partitions -> UNION {StartSizes(p) : p \in Partitions}]
    /\ \A p \in Partitions : cacheSize[p] \in StartSizes(p)
    /\ performanceCounter = 0
    /\ cacheOps = 0
    /\ caches = [p \in Partitions |-> <<>>]
    /\ cacheMetrics = EmptyMap
    /\ swNow = START_MINUTES

\* safeCachePut(cache, request, response, cacheName) on partition p, run to its
\* end: the budget check, manageCacheSize, cache.put.  `held` says whether the
\* cache holds the request's key when cache.put runs (it then replaces the entry).
\* The return of the budget check is inside the try, so the finally's
\* performanceCounter-- runs for a skipped put as well.
SafeCachePut(p, cacheName, held) ==
    /\ cacheOps < MaxCacheOps
    /\ cacheOps' = cacheOps + 1
    /\ IF performanceCounter >= PERFORMANCE_BUDGET
       THEN /\ performanceCounter' = performanceCounter - 1
            /\ UNCHANGED cacheSize
       ELSE LET kept == cacheSize[p] - evictCount(cacheSize[p], cacheName)
            IN  /\ held => kept > 0
                /\ cacheSize' = [cacheSize EXCEPT ![p] = IF held THEN kept ELSE kept + 1]
                /\ UNCHANGED performanceCounter
    /\ UNCHANGED entryVars
    /\ UNCHANGED fetchVars
    /\ UNCHANGED fgVars
    /\ UNCHANGED dbVars
    /\ UNCHANGED coordVars

\* A put by a strategy or by executePrefetch, which pass SW_CONFIG.CACHE_NAMES.X.
PutByName(p, held) == SafeCachePut(p, CACHE_NAMES[p], held)

\* The put of updateCacheInBackground (cacheFirstStrategy on the static cache).
PutInBackground(held) == SafeCachePut("STATIC", UNKNOWN_NAME, held)

\* handleBackgroundCleanup: manageCacheSize on every cache in turn.
HandleBackgroundCleanup ==
    /\ cacheOps < MaxCacheOps
    /\ cacheOps' = cacheOps + 1
    /\ cacheSize' = [p \in Partitions |->
                        cacheSize[p] - evictCount(cacheSize[p], CACHE_NAMES[p])]
    /\ UNCHANGED performanceCounter
    /\ UNCHANGED entryVars
    /\ UNCHANGED fetchVars
    /\ UNCHANGED fgVars
    /\ UNCHANGED dbVars
    /\ UNCHANGED coordVars

NextWorker ==
    \/ \E p \in Partitions, held \in BOOLEAN : PutByName(p, held)
    \/ \E held \in BOOLEAN : PutInBackground(held)
    \/ HandleBackgroundCleanup

InitW == InitForeground /\ InitWorker

SpecWorker == InitW /\ [][NextWorker]_vars


\* ------------------------------------------- worker: entries and eviction
\* A cached response is [url, timestamp, stamped, version, body]: `stamped`
\* says whether it carries X-VelocityCache-Timestamp, `version` is its
\* X-VelocityCache-Version ("" when the header is absent), times are in
\* whole minutes.  A metrics object is [hits, lastAccess, timed]: `timed` says
\* whether the object has a lastAccess property at all.

\* SW_CONFIG.VERSION
VERSION == "1.0.0"

\* The object recordCacheHit and recordCacheMiss start from, and the one
\* manageCacheSize assumes for a url without metrics: lastAccess: 0.
TimedDefault == [hits |-> 0, lastAccess |-> 0, timed |-> TRUE]

\* The object recordNetworkSuccess and recordCacheFallback start from: it has
\* no lastAccess property.
UntimedDefault == [hits |-> 0, lastAccess |-> 0, timed |-> FALSE]

\* Map.get(url) || fallback
MetricsOr(metrics, url, fallback) ==
    IF url \in DOMAIN metrics THEN metrics[url] ELSE fallback

\* Map.set(url, m)
MapSet(map, url, m) == [u \in DOMAIN map \cup {url} |-> IF u = url THEN m ELSE map[u]]

\* Map.delete for a set of urls
MapDelete(map, urls) == [u \in DOMAIN map \ urls |-> map[u]]

\* recordCacheHit(url): hits++, lastAccess = Date.now()
recordCacheHit(metrics, url, clock) ==
    LET m == MetricsOr(metrics, url, TimedDefault)
    IN  MapSet(metrics, url, [hits |-> m.hits + 1, lastAccess |-> clock, timed |-> TRUE])

\* recordCacheMiss(url): misses++ on the existing or a new object
recordCacheMiss(metrics, url) ==
    MapSet(metrics, url, MetricsOr(metrics, url, TimedDefault))

\* recordNetworkSuccess(url): networkSuccess++ on the existing or a new object
recordNetworkSuccess(metrics, url) ==
    MapSet(metrics, url, MetricsOr(metrics, url, UntimedDefault))

\* recordCacheFallback(url): fallbacks++ on the existing or a new object
recordCacheFallback(metrics, url) ==
    MapSet(metrics, url, MetricsOr(metrics, url, UntimedDefault))

\* parseInt(response.headers.get('X-VelocityCache-Timestamp') || '0')
timestampOf(entry) == IF entry.stamped THEN entry.timestamp ELSE 0

\* calculateEvictionScore(metrics, timestamp), times 60 to stay in the
\* integers: age in hours + minutes since the last access - hits * 10.
\* Date.now() - undefined is NaN, and so is the score then.
calculateEvictionScore(m, timestamp, clock) ==
    [nan   |-> ~m.timed,
     value |-> IF m.timed
               THEN ((clock - timestamp) + (60 * (clock - m.lastAccess))) - (600 * m.hits)
               ELSE 0]

\* keysWithMetrics: each entry with its score
WithScore(entry, metrics, clock) ==
    [entry |-> entry,
     score |-> calculateEvictionScore(MetricsOr(metrics, entry.url, TimedDefault),
                                      timestampOf(entry), clock)]

\* (a, b) => a.score - b.score is positive; a NaN difference counts as +0.
ScoreAbove(a, b) == ~a.score.nan /\ ~b.score.nan /\ a.score.value > b.score.value

\* A stable sort by ascending score.  An item with a NaN score compares above
\* nothing and nothing compares above it: it keeps its place and no item
\* passes it, and the items between two such items are sorted among
\* themselves, items that compare equal keeping their order.
SortByScore(scored) ==
    LET n     == Len(scored)
        items == SubSeq(scored, 1, n)
        run   == SubSeq([i \in 1..n |-> Cardinality({ k \in 1..i : items[k].score.nan })], 1, n)
        before(j, i) ==
            IF run[j] = run[i] /\ ~items[j].score.nan /\ ~items[i].score.nan
            THEN \/ ScoreAbove(items[i], items[j])
                 \/ ~ScoreAbove(items[j], items[i]) /\ j < i
            ELSE j < i
        place == SubSeq([i \in 1..n |-> 1 + Cardinality({ j \in 1..n : before(j, i) })], 1, n)
    IN  [r \in 1..n |-> items[CHOOSE i \in 1..n : place[i] = r]]

\* The urls of a sequence of entries
UrlsOf(entries) == { entries[i].url : i \in DOMAIN entries }

\* manageCacheSize(cache, cacheName): at maxSize keys or more, the
\* keys.length - maxSize + 5 entries first in the order of their scores are
\* deleted from the cache and from cacheMetrics.
manageCacheSize(cache, cacheName, metrics, clock) ==
    LET maxSize == maxSizeOf(cacheName)
        scored  == [i \in DOMAIN cache |-> WithScore(cache[i], metrics, clock)]
        toEvict == IF Len(cache) >= maxSize
                   THEN Slice(SortByScore(scored), (Len(cache) - maxSize) + EVICT_BUFFER)
                   ELSE <<>>
        gone    == { toEvict[i].entry.url : i \in DOMAIN toEvict }
    IN  [cache   |-> SelectSeq(cache, LAMBDA e : e.url \notin gone),
         metrics |-> MapDelete(metrics, gone),
         evicted |-> gone]

\* cache.put(request, response): the entry of the same url, if any, gives way
cachePut(cache, entry) == Append(SelectSeq(cache, LAMBDA e : e.url # entry.url), entry)

\* cache.match(request): the entries of the url (none or one)
cacheMatch(cache, url) == SelectSeq(cache, LAMBDA e : e.url = url)

\* A safeCachePut that puts the response as the network sent it.
responseAsReceived(url, body, clock) ==
    [url |-> url, timestamp |-> 0, stamped |-> FALSE, version |-> "", body |-> body]

\* safeCachePut's response: X-VelocityCache-Timestamp and -Version set
enhancedResponse(url, body, clock) ==
    [url |-> url, timestamp |-> clock, stamped |-> TRUE, version |-> VERSION, body |-> body]

\* ------------------------------------------------ worker: SpecEvict
\* Puts and hits on partitions whose entries are kept one by one, each
\* safeCachePut run to its end with no other writer in between.

\* The i-th url of the requests that partition p serves
AssetUrl(p, i) ==
    CASE p = "STATIC"   -> "/asset-" \o ToString(i) \o ".css"
      [] p = "DYNAMIC"  -> "/page-" \o ToString(i)
      [] p = "PREFETCH" -> "/next-" \o ToString(i)
      [] p = "API"      -> "/api/public/item-" \o ToString(i)

\* The worker's clock passes an hour.
SwTick ==
    /\ swNow < START_MINUTES + (MaxSwTicks * MAX_AGE_MINUTES)
    /\ swNow' = swNow + MAX_AGE_MINUTES
    /\ UNCHANGED <<cacheSize, performanceCounter, cacheOps, caches, cacheMetrics>>
    /\ UNCHANGED fetchVars
    /\ UNCHANGED fgVars
    /\ UNCHANGED dbVars
    /\ UNCHANGED coordVars

\* n entries of partition p put one a minute, the last one a minute ago.
Filled(p, n) ==
    [i \in 1..n |-> enhancedResponse(AssetUrl(p, i), 1, START_MINUTES - ((n - i) + 1))]

\* The metrics those entries have.  The static cache is filled by
\* cacheFirstStrategy (recordCacheMiss), the dynamic and api caches by
\* networkFirstStrategy (recordNetworkSuccess), the prefetch cache by
\* executePrefetch (no metrics).  `visited`: the i-th entry of the static and
\* prefetch caches has since been served i times (recordCacheHit), last in
\* the minute it was put.
FilledMetrics(p, n, visited) ==
    LET urls == { AssetUrl(p, i) : i \in 1..n }
        nth(u) == CHOOSE i \in 1..n : AssetUrl(p, i) = u
    IN  IF p \in {"DYNAMIC", "API"} THEN [u \in urls |-> UntimedDefault]
        ELSE IF visited
             THEN [u \in urls |-> [hits |-> nth(u),
                                   lastAccess |-> START_MINUTES - ((n - nth(u)) + 1),
                                   timed |-> TRUE]]
             ELSE IF p = "STATIC" THEN [u \in urls |-> TimedDefault] ELSE EmptyMap

\* The record a strategy makes once its put has settled: recordCacheMiss in
\* cacheFirstStrategy, recordNetworkSuccess in networkFirstStrategy, none in
\* executePrefetch.
RecordAfterPut(p, metrics, url) ==
    CASE p = "STATIC"            -> recordCacheMiss(metrics, url)
      [] p \in {"DYNAMIC", "API"} -> recordNetworkSuccess(metrics, url)
      [] p = "PREFETCH"          -> metrics

\* The url of the next request for something partition p does not hold.
NewUrl(p) ==
    LET free == { i \in 1..(FALLBACK_MAX_SIZE + MaxCacheOps) :
                     i > FALLBACK_MAX_SIZE /\ AssetUrl(p, i) \notin UrlsOf(caches[p]) }
    IN  AssetUrl(p, CHOOSE i \in free : \A j \in free : i <= j)

\* A request for a url that partition p does not hold, answered with status
\* 200: safeCachePut(cache, request, response, SW_CONFIG.CACHE_NAMES.X) runs
\* the budget check, manageCacheSize and cache.put, then the strategy records.
PutEntry(p) ==
    /\ cacheOps < MaxCacheOps
    /\ cacheOps' = cacheOps + 1
    /\ LET managed == manageCacheSize(caches[p], CACHE_NAMES[p], cacheMetrics, swNow)
           put     == cachePut(managed.cache, enhancedResponse(NewUrl(p), 1, swNow))
       IN  IF performanceCounter >= PERFORMANCE_BUDGET
           THEN /\ cacheMetrics' = RecordAfterPut(p, cacheMetrics, NewUrl(p))
                /\ performanceCounter' = performanceCounter - 1
                /\ UNCHANGED <<caches, cacheSize>>
           ELSE /\ caches' = [caches EXCEPT ![p] = put]
                /\ cacheSize' = [cacheSize EXCEPT ![p] = Len(put)]
                /\ cacheMetrics' = RecordAfterPut(p, managed.metrics, NewUrl(p))
                /\ UNCHANGED performanceCounter
    /\ UNCHANGED swNow
    /\ UNCHANGED fetchVars
    /\ UNCHANGED fgVars
    /\ UNCHANGED dbVars
    /\ UNCHANGED coordVars

\* A request that cacheFirstStrategy (static) or staleWhileRevalidateStrategy
\* (prefetch, its revalidation failing) serves from a fresh entry of the
\* cache: recordCacheHit.
HitEntry(p, url) ==
    /\ cacheOps < MaxCacheOps
    /\ cacheOps' = cacheOps + 1
    /\ p \in {"STATIC", "PREFETCH"}
    /\ url \in UrlsOf(caches[p])
    /\ \A i \in DOMAIN caches[p] :
          caches[p][i].url = url => (swNow - caches[p][i].timestamp) <= MAX_AGE_MINUTES
    /\ cacheMetrics' = recordCacheHit(cacheMetrics, url, swNow)
    /\ UNCHANGED <<cacheSize, performanceCounter, caches, swNow>>
    /\ UNCHANGED fetchVars
    /\ UNCHANGED fgVars
    /\ UNCHANGED dbVars
    /\ UNCHANGED coordVars

\* The urls whose hits the model follows: the oldest entry of the start.
HitUrls == { AssetUrl(p, 1) : p \in Partitions }

\* The largest of StartSizes(p)
NearlyFull(p) == CHOOSE n \in StartSizes(p) : \A m \in StartSizes(p) : m <= n

\* A worker in mid-run: one partition nearly full, the others empty.
InitEvict ==
    /\ InitForeground
    /\ InitFetchIdle
    /\ performanceCounter = 0
    /\ cacheOps = 0
    /\ swNow = START_MINUTES
    /\ \E full \in Partitions, visited \in BOOLEAN :
          /\ cacheSize = [p \in Partitions |-> IF p = full THEN NearlyFull(p) ELSE 0]
          /\ caches = [p \in Partitions |->
                          IF p = full THEN Filled(p, NearlyFull(p)) ELSE <<>>]
          /\ cacheMetrics = FilledMetrics(full, NearlyFull(full), visited)

NextEvict ==
    \/ \E p \in Partitions : PutEntry(p)
    \/ \E p \in Partitions, url \in HitUrls : HitEntry(p, url)
    \/ SwTick

SpecEvict == InitEvict /\ [][NextEvict]_vars

\* ------------------------------------------------ worker: SpecFetch
\* The Fetch Strategy Engine: the fetch listener, classifyRequest,
\* handleFetchWithStrategy and the three strategies, one action per task.

\* A GET request of the worker's own origin: its path with the path's
\* extension and directory tests already taken, its Accept header and its
\* X-Prefetch-Source header; bypass: whether it asks to go round the cache
\* (Cache-Control: no-cache, say).
Request(url, ext, api, public, accept, prefetchSource) ==
    [url |-> url, ext |-> ext, api |-> api, public |-> public,
     accept |-> accept, prefetchSource |-> prefetchSource, bypass |-> FALSE]

Requests ==
    { Request("/app.css", "css", FALSE, FALSE, "text/css", FALSE),
      Request("/app.css", "css", FALSE, FALSE, "text/css", TRUE),
      Request("/logo.png", "png", FALSE, FALSE, "image/png", FALSE),
      Request("/clip.mp4", "mp4", FALSE, FALSE, "video/mp4", FALSE),
      Request("/api/users", "", TRUE, FALSE, "application/json", FALSE),
      Request("/api/public/info", "", TRUE, TRUE, "application/json", FALSE),
      Request("/page", "", FALSE, FALSE, "text/html", FALSE),
      Request("/page", "", FALSE, FALSE, "text/html", TRUE),
      Request("/next", "", FALSE, FALSE, "", TRUE),
      Request("/data", "", FALSE, FALSE, "", FALSE) }

\* The same requests sent with Cache-Control: no-cache
BypassRequests ==
    { [request EXCEPT !.bypass = TRUE] :
         request \in { r \in Requests : r.url \in {"/app.css", "/page", "/api/users"} /\ ~r.prefetchSource } }

\* shouldBypassCache
shouldBypassCache(request) == request.bypass

StaticExtensions == {"css", "js", "woff", "woff2", "ttf", "eot"}
ImageExtensions == {"png", "jpg", "jpeg", "gif", "webp", "svg", "ico"}
MediaExtensions == {"mp4", "webm", "mp3", "wav", "ogg"}

\* classifyRequest: the first rule that matches
classifyRequest(request) ==
    IF request.ext \in StaticExtensions THEN "static"
    ELSE IF request.ext \in ImageExtensions THEN "image"
    ELSE IF request.ext \in MediaExtensions THEN "media"
    ELSE IF request.api THEN "api"
    ELSE IF request.accept = "text/html" THEN "html"
    ELSE IF request.prefetchSource THEN "prefetch"
    ELSE "dynamic"

\* A handleFetchWithStrategy that gives every class one strategy and one
\* timeout: network-first on the dynamic cache.
handleFetchWithStrategyOneForAll(request) ==
    [chain |-> "networkFirst", p |-> "DYNAMIC", isAPI |-> classifyRequest(request) = "api",
     timeout |-> NETWORK_FIRST_TIMEOUT]

\* handleFetchWithStrategy's switch: the strategy, its partition, isAPI, and
\* the timeout the strategy gives fetchWithTimeout.
handleFetchWithStrategy(request) ==
    LET requestType == classifyRequest(request)
    IN  CASE requestType = "static" ->
                [chain |-> "cacheFirst", p |-> "STATIC", isAPI |-> FALSE, timeout |-> FETCH_TIMEOUT]
          [] requestType = "html" ->
                [chain |-> "networkFirst", p |-> "DYNAMIC", isAPI |-> FALSE, timeout |-> NETWORK_FIRST_TIMEOUT]
          [] requestType = "api" ->
                [chain |-> "networkFirst", p |-> "API", isAPI |-> TRUE, timeout |-> NETWORK_FIRST_TIMEOUT \div 2]
          [] requestType = "prefetch" ->
                [chain |-> "staleWhileRevalidate", p |-> "PREFETCH", isAPI |-> FALSE, timeout |-> FETCH_TIMEOUT]
          [] requestType \in {"image", "media"} ->
                [chain |-> "cacheFirst", p |-> "STATIC", isAPI |-> FALSE, timeout |-> FETCH_TIMEOUT]
          [] OTHER ->
                [chain |-> "networkFirst", p |-> "DYNAMIC", isAPI |-> FALSE, timeout |-> NETWORK_FIRST_TIMEOUT]

\* A shouldCacheResponse without the path test for api requests.
shouldCacheResponseAnyPath(request, noStore, isAPI) == ~noStore

\* shouldCacheResponse, for a response of status 200
shouldCacheResponse(request, noStore, isAPI) ==
    /\ ~noStore
    /\ isAPI => request.public

\* An isResourceStale that takes every entry for stale.
isResourceStaleAlways(entry, clock) == TRUE

\* isResourceStale
isResourceStale(entry, clock) ==
    \/ ~entry.stamped
    \/ (clock - entry.timestamp) > MAX_AGE_MINUTES

\* One execution in progress: a strategy (chain cacheFirst, networkFirst,
\* staleWhileRevalidate), updateCacheInBackground (chain update) or a
\* safeCachePut nothing awaits (chain put), suspended at the await `pc`:
\* match (cache.match), fetch (fetchWithTimeout), put (safeCachePut),
\* fallback (networkFirstStrategy's cache.match).  waiting: the strategy has
\* not returned yet.  status and body: the network response it holds.
Task(chain, pc, request, p, isAPI, timeout, waiting, status, body) ==
    [chain |-> chain, pc |-> pc, request |-> request, p |-> p, isAPI |-> isAPI,
     timeout |-> timeout, waiting |-> waiting, status |-> status, body |-> body]

At(t, pc) == [t EXCEPT !.pc = pc]

Holding(t, status, body) == [t EXCEPT !.status = status, !.body = body]

Started(t) == tasks (+) SetToBag({t})

Finished(t) == tasks (-) SetToBag({t})

Moved(t, next) == (tasks (-) SetToBag({t})) (+) SetToBag({next})

\* what fetchWithTimeout comes to, its one retry included: a response of
\* status 200, one of status 200 with Cache-Control: no-store, a response of
\* another status, or an error (the network down, or the timeout's abort)
Outcomes == {"ok", "noStore", "notOk", "failed"}

NOT_OK_STATUS == 404
OFFLINE_STATUS == 503

\* the strategy returns `entry` of the cache
ReturnCached(t, entry) ==
    lastResponse' = [seq |-> lastResponse.seq + 1, url |-> t.request.url, via |-> t.chain,
                     source |-> "cache", status |-> 200, body |-> entry.body,
                     stamped |-> entry.stamped, version |-> entry.version]

\* the strategy returns the network's response
ReturnNetwork(t, status, body) ==
    lastResponse' = [seq |-> lastResponse.seq + 1, url |-> t.request.url, via |-> t.chain,
                     source |-> "network", status |-> status, body |-> body,
                     stamped |-> FALSE, version |-> ""]

\* the strategy returns createOfflineResponse
ReturnOffline(t) ==
    lastResponse' = [seq |-> lastResponse.seq + 1, url |-> t.request.url, via |-> t.chain,
                     source |-> "offline", status |-> OFFLINE_STATUS, body |-> 0,
                     stamped |-> FALSE, version |-> ""]

\* The fetch listener for a GET request of the own origin that does not
\* bypass the cache: handleFetchWithStrategy runs the strategy to its first
\* await.
FetchEvent(request) ==
    /\ ~shouldBypassCache(request)
    /\ requests < MaxRequests
    /\ requests' = requests + 1
    /\ LET s == handleFetchWithStrategy(request)
           pc == IF s.chain = "networkFirst" THEN "fetch" ELSE "match"
       IN  tasks' = Started(Task(s.chain, pc, request, s.p, s.isAPI, s.timeout, TRUE, 0, 0))
    /\ UNCHANGED <<cacheSize, performanceCounter, cacheOps, caches, cacheMetrics, swNow>>
    /\ UNCHANGED <<lastResponse, otherOps>>
    /\ UNCHANGED fgVars
    /\ UNCHANGED dbVars
    /\ UNCHANGED coordVars

\* Strategies that take what cache.match finds for a miss and wait for the
\* network.
CacheMatchedAsMiss(t) ==
    /\ t \in BagToSet(tasks)
    /\ t.pc = "match"
    /\ tasks' = Moved(t, At(t, "fetch"))
    /\ UNCHANGED <<cacheSize, performanceCounter, cacheOps, caches, cacheMetrics, swNow>>
    /\ UNCHANGED <<lastResponse, otherOps, requests>>
    /\ UNCHANGED fgVars
    /\ UNCHANGED dbVars
    /\ UNCHANGED coordVars

\* cacheFirstStrategy and staleWhileRevalidateStrategy after cache.match.
\* cacheFirst: a hit is returned, updateCacheInBackground started if it is
\* stale; a miss goes to the network.  staleWhileRevalidate: the network
\* fetch starts either way, a hit is returned at once.
CacheMatched(t) ==
    /\ t \in BagToSet(tasks)
    /\ t.pc = "match"
    /\ LET hit == cacheMatch(caches[t.p], t.request.url)
       IN  IF hit # <<>>
           THEN /\ cacheMetrics' = recordCacheHit(cacheMetrics, t.request.url, swNow)
                /\ ReturnCached(t, hit[1])
                /\ tasks' = IF t.chain = "staleWhileRevalidate"
                            THEN Moved(t, [At(t, "fetch") EXCEPT !.waiting = FALSE])
                            ELSE IF isResourceStale(hit[1], swNow)
                            THEN Moved(t, [At(t, "fetch") EXCEPT !.chain = "update", !.waiting = FALSE])
                            ELSE Finished(t)
           ELSE /\ tasks' = Moved(t, At(t, "fetch"))
                /\ UNCHANGED <<cacheMetrics, lastResponse>>
    /\ UNCHANGED <<cacheSize, performanceCounter, cacheOps, caches, swNow>>
    /\ UNCHANGED <<otherOps, requests>>
    /\ UNCHANGED fgVars
    /\ UNCHANGED dbVars
    /\ UNCHANGED coordVars

\* fetchWithTimeout settles with `outcome`, and the task runs to its next
\* await or to its end.  A status 200 goes to safeCachePut (networkFirst:
\* if shouldCacheResponse), which returns at once when the performance
\* budget is used up (through its finally: performanceCounter--) and else
\* counts itself and suspends; cacheFirst, networkFirst and
\* updateCacheInBackground await it, staleWhileRevalidate's .then does not.
FetchSettled(t, outcome) ==
    /\ t \in BagToSet(tasks)
    /\ t.pc = "fetch"
    /\ LET is200     == outcome \in {"ok", "noStore"}
           status    == IF is200 THEN 200 ELSE IF outcome = "notOk" THEN NOT_OK_STATUS ELSE 0
           body      == swNow
           wantsPut  == /\ is200
                        /\ t.chain = "networkFirst"
                              => shouldCacheResponse(t.request, outcome = "noStore", t.isAPI)
           putStarts == wantsPut /\ performanceCounter < PERFORMANCE_BUDGET
           putting   == Holding(At(t, "put"), status, body)
       IN  /\ performanceCounter' = IF putStarts THEN performanceCounter + 1
                                    ELSE IF wantsPut THEN performanceCounter - 1
                                    ELSE performanceCounter
           /\ CASE t.chain = "networkFirst" /\ ~is200 ->
                     /\ tasks' = Moved(t, Holding(At(t, "fallback"), status, body))
                     /\ UNCHANGED <<cacheMetrics, lastResponse>>
                [] t.chain = "staleWhileRevalidate" ->
                     /\ tasks' = IF putStarts
                                 THEN Moved(t, [putting EXCEPT !.chain = "put", !.waiting = FALSE])
                                 ELSE Finished(t)
                     /\ IF t.waiting
                        THEN /\ cacheMetrics' = recordNetworkSuccess(cacheMetrics, t.request.url)
                             /\ IF outcome = "failed"
                                THEN ReturnOffline(t)
                                ELSE ReturnNetwork(t, status, body)
                        ELSE UNCHANGED <<cacheMetrics, lastResponse>>
                [] t.chain # "staleWhileRevalidate" /\ putStarts ->
                     /\ tasks' = Moved(t, putting)
                     /\ UNCHANGED <<cacheMetrics, lastResponse>>
                [] t.chain = "update" /\ ~putStarts ->
                     /\ tasks' = Finished(t)
                     /\ UNCHANGED <<cacheMetrics, lastResponse>>
                [] t.chain = "cacheFirst" /\ ~putStarts ->
                     /\ tasks' = Finished(t)
                     /\ IF outcome = "failed"
                        THEN /\ ReturnOffline(t)
                             /\ UNCHANGED cacheMetrics
                        ELSE /\ cacheMetrics' = recordCacheMiss(cacheMetrics, t.request.url)
                             /\ ReturnNetwork(t, status, body)
                [] t.chain = "networkFirst" /\ is200 /\ ~putStarts ->
                     /\ tasks' = Finished(t)
                     /\ cacheMetrics' = recordNetworkSuccess(cacheMetrics, t.request.url)
                     /\ ReturnNetwork(t, status, body)
    /\ UNCHANGED <<cacheSize, cacheOps, caches, swNow>>
    /\ UNCHANGED <<otherOps, requests>>
    /\ UNCHANGED fgVars
    /\ UNCHANGED dbVars
    /\ UNCHANGED coordVars

\* The rest of a safeCachePut that passed the budget check: manageCacheSize,
\* cache.put (which the Cache API accepts or rejects) and, finally,
\* performanceCounter--; then the strategy that awaited it records and
\* returns the network's response.
PutSettled(t, accepted) ==
    /\ t \in BagToSet(tasks)
    /\ t.pc = "put"
    /\ LET cacheName == IF t.chain = "update" THEN UNKNOWN_NAME ELSE CACHE_NAMES[t.p]
           managed   == manageCacheSize(caches[t.p], cacheName, cacheMetrics, swNow)
           put       == IF accepted
                        THEN cachePut(managed.cache, enhancedResponse(t.request.url, t.body, swNow))
                        ELSE managed.cache
       IN  /\ caches' = [caches EXCEPT ![t.p] = put]
           /\ cacheSize' = [cacheSize EXCEPT ![t.p] = Len(put)]
           /\ CASE t.chain = "cacheFirst" ->
                     /\ cacheMetrics' = recordCacheMiss(managed.metrics, t.request.url)
                     /\ ReturnNetwork(t, t.status, t.body)
                [] t.chain = "networkFirst" ->
                     /\ cacheMetrics' = recordNetworkSuccess(managed.metrics, t.request.url)
                     /\ ReturnNetwork(t, t.status, t.body)
                [] OTHER ->
                     /\ cacheMetrics' = managed.metrics
                     /\ UNCHANGED lastResponse
    /\ performanceCounter' = performanceCounter - 1
    /\ tasks' = Finished(t)
    /\ UNCHANGED <<cacheOps, swNow>>
    /\ UNCHANGED <<otherOps, requests>>
    /\ UNCHANGED fgVars
    /\ UNCHANGED dbVars
    /\ UNCHANGED coordVars

\* A networkFirstStrategy that does not look in the cache after a response
\* of another status or a failed fetch.
FallbackSkipped(t) ==
    /\ t \in BagToSet(tasks)
    /\ t.pc = "fallback"
    /\ IF t.status = 0 THEN ReturnOffline(t) ELSE ReturnNetwork(t, t.status, t.body)
    /\ tasks' = Finished(t)
    /\ UNCHANGED <<cacheSize, performanceCounter, cacheOps, caches, cacheMetrics, swNow>>
    /\ UNCHANGED <<otherOps, requests>>
    /\ UNCHANGED fgVars
    /\ UNCHANGED dbVars
    /\ UNCHANGED coordVars

\* networkFirstStrategy after the cache.match that follows a response of
\* another status or a failed fetch.
FallbackMatched(t) ==
    /\ t \in BagToSet(tasks)
    /\ t.pc = "fallback"
    /\ LET hit == cacheMatch(caches[t.p], t.request.url)
       IN  IF hit # <<>>
           THEN /\ cacheMetrics' = recordCacheFallback(cacheMetrics, t.request.url)
                /\ ReturnCached(t, hit[1])
           ELSE /\ IF t.status = 0 THEN ReturnOffline(t) ELSE ReturnNetwork(t, t.status, t.body)
                /\ UNCHANGED cacheMetrics
    /\ tasks' = Finished(t)
    /\ UNCHANGED <<cacheSize, performanceCounter, cacheOps, caches, swNow>>
    /\ UNCHANGED <<otherOps, requests>>
    /\ UNCHANGED fgVars
    /\ UNCHANGED dbVars
    /\ UNCHANGED coordVars

\* The fetch listener for a GET request of the own origin that bypasses the
\* cache: respondWith(fetchWithTimeout(request).catch(...)).
BypassEvent(request) ==
    /\ shouldBypassCache(request)
    /\ requests < MaxRequests
    /\ requests' = requests + 1
    /\ tasks' = Started(Task("bypass", "direct", request, "DYNAMIC", FALSE, FETCH_TIMEOUT, TRUE, 0, 0))
    /\ UNCHANGED <<cacheSize, performanceCounter, cacheOps, caches, cacheMetrics, swNow>>
    /\ UNCHANGED <<lastResponse, otherOps>>
    /\ UNCHANGED fgVars
    /\ UNCHANGED dbVars
    /\ UNCHANGED coordVars

\* A promise the worker gave respondWith rejects
ReturnRejected(t) ==
    lastResponse' = [seq |-> lastResponse.seq + 1, url |-> t.request.url, via |-> t.chain,
                     source |-> "rejected", status |-> 0, body |-> 0,
                     stamped |-> FALSE, version |-> ""]

\* The bypass path after fetchWithTimeout: the response, or through .catch
\* the offline response.
BypassSettled(t, outcome) ==
    /\ t \in BagToSet(tasks)
    /\ t.pc = "direct"
    /\ IF outcome = "failed"
       THEN ReturnOffline(t)
       ELSE ReturnNetwork(t, IF outcome = "notOk" THEN NOT_OK_STATUS ELSE 200, swNow)
    /\ tasks' = Finished(t)
    /\ UNCHANGED <<cacheSize, performanceCounter, cacheOps, caches, cacheMetrics, swNow>>
    /\ UNCHANGED <<otherOps, requests>>
    /\ UNCHANGED fgVars
    /\ UNCHANGED dbVars
    /\ UNCHANGED coordVars

\* A handleFetchWithStrategy without its try and catch: what a strategy
\* throws rejects the promise given to respondWith.
StrategyThrewUncaught(t) ==
    /\ ReturnRejected(t)
    /\ tasks' = Finished(t)

\* handleFetchWithStrategy's catch: what a strategy throws becomes the
\* offline response.
StrategyThrew(t) ==
    /\ ReturnOffline(t)
    /\ tasks' = Finished(t)

\* The Cache API fails a strategy: caches.open or cache.match rejects.  In
\* cacheFirstStrategy and staleWhileRevalidateStrategy both stand outside
\* any try; networkFirstStrategy's caches.open too, and its cache.match
\* throws into (or from) its catch, where cache.match is called again.  The
\* strategy throws either way.
CacheReadFailed(t) ==
    /\ t \in BagToSet(tasks)
    /\ \/ t.pc \in {"match", "fallback"}
       \/ t.pc = "fetch" /\ t.chain = "networkFirst"
    /\ StrategyThrew(t)
    /\ UNCHANGED <<cacheSize, performanceCounter, cacheOps, caches, cacheMetrics, swNow>>
    /\ UNCHANGED <<otherOps, requests>>
    /\ UNCHANGED fgVars
    /\ UNCHANGED dbVars
    /\ UNCHANGED coordVars

\* Other requests (a page's images, say) have come to their safeCachePut:
\* so many are between performanceCounter++ and performanceCounter-- that
\* the budget is used up.
OtherPutsBegin ==
    /\ otherOps = 0
    /\ performanceCounter < PERFORMANCE_BUDGET
    /\ otherOps' = PERFORMANCE_BUDGET - performanceCounter
    /\ performanceCounter' = PERFORMANCE_BUDGET
    /\ UNCHANGED <<cacheSize, cacheOps, caches, cacheMetrics, swNow>>
    /\ UNCHANGED <<tasks, lastResponse, requests>>
    /\ UNCHANGED fgVars
    /\ UNCHANGED dbVars
    /\ UNCHANGED coordVars

\* Those puts have settled, each with its performanceCounter--.
OtherPutsEnd ==
    /\ otherOps > 0
    /\ otherOps' = 0
    /\ performanceCounter' = performanceCounter - otherOps
    /\ UNCHANGED <<cacheSize, cacheOps, caches, cacheMetrics, swNow>>
    /\ UNCHANGED <<tasks, lastResponse, requests>>
    /\ UNCHANGED fgVars
    /\ UNCHANGED dbVars
    /\ UNCHANGED coordVars

\* An entry a release of the worker before VERSION left in the cache of the
\* same name, and the metrics of a worker that has not served it yet.
PREVIOUS_VERSION == "0.9.0"

LegacyEntry(url) ==
    [url |-> url, timestamp |-> START_MINUTES - 1, stamped |-> TRUE,
     version |-> PREVIOUS_VERSION, body |-> START_MINUTES - 1]

\* The caches at the worker's start: empty, or holding what the worker (or
\* the release before it) cached a minute ago.
StartCaches ==
    { [p \in Partitions |-> <<>>],
      [STATIC   |-> <<enhancedResponse("/app.css", START_MINUTES - 1, START_MINUTES - 1)>>,
       DYNAMIC  |-> <<enhancedResponse("/page", START_MINUTES - 1, START_MINUTES - 1)>>,
       PREFETCH |-> <<enhancedResponse("/next", START_MINUTES - 1, START_MINUTES - 1)>>,
       API      |-> <<enhancedResponse("/api/public/info", START_MINUTES - 1, START_MINUTES - 1)>>],
      [STATIC   |-> <<LegacyEntry("/app.css")>>,
       DYNAMIC  |-> <<>>,
       PREFETCH |-> <<LegacyEntry("/next")>>,
       API      |-> <<>>] }

InitFetch ==
    /\ InitForeground
    /\ InitFetchIdle
    /\ caches \in StartCaches
    /\ cacheSize = [p \in Partitions |-> Len(caches[p])]
    /\ cacheMetrics = EmptyMap
    /\ performanceCounter = 0
    /\ cacheOps = 0
    /\ swNow = START_MINUTES

NextFetch ==
    \/ \E request \in Requests : FetchEvent(request)
    \/ \E t \in BagToSet(tasks) : CacheMatched(t)
    \/ \E t \in BagToSet(tasks), outcome \in Outcomes : FetchSettled(t, outcome)
    \/ \E t \in BagToSet(tasks), accepted \in BOOLEAN : PutSettled(t, accepted)
    \/ \E t \in BagToSet(tasks) : FallbackMatched(t)
    \/ OtherPutsBegin
    \/ OtherPutsEnd
    \/ SwTick

SpecFetch == InitFetch /\ [][NextFetch]_vars

\* SpecFault: the fetch path with the bypass branch and a Cache API that
\* can fail reads as well as puts.
NextFault ==
    \/ \E request \in Requests : FetchEvent(request)
    \/ \E request \in BypassRequests : BypassEvent(request)
    \/ \E t \in BagToSet(tasks) : CacheMatched(t)
    \/ \E t \in BagToSet(tasks) : CacheReadFailed(t)
    \/ \E t \in BagToSet(tasks), outcome \in Outcomes : FetchSettled(t, outcome)
    \/ \E t \in BagToSet(tasks), outcome \in Outcomes : BypassSettled(t, outcome)
    \/ \E t \in BagToSet(tasks), accepted \in BOOLEAN : PutSettled(t, accepted)
    \/ \E t \in BagToSet(tasks) : FallbackMatched(t)
    \/ OtherPutsBegin
    \/ OtherPutsEnd
    \/ SwTick

SpecFault == InitFetch /\ [][NextFault]_vars

\* ------------------------------------------- foreground: SpecStore
\* storeInCache and cleanupOldEntries on the object store of IndexedDB.  A
\* transaction runs alone; the put of storeInCache and the cleanup it awaits
\* are two transactions, and other transactions may run between them.

\* The key of the i-th entry that earlier page loads left in the store
OldUrl(i) == "/old-" \o ToString(MAX_CACHED_LINKS + i)

\* The most entries the store has held
MaxKeys == MAX_CACHED_LINKS + MaxStores

\* The keys in the order of a cursor (ascending)
KeyOrder == <<"/a", "/b">> \o [i \in 1..MaxKeys |-> OldUrl(i)]

\* The place of a key in the cursor's order
KeyIndex(url) == CHOOSE i \in DOMAIN KeyOrder : KeyOrder[i] = url

\* score: lastAccessed + (accessCount * 86400000)
LruScore(entry) == entry.lastAccessed + (entry.accessCount * ACCESS_BOOST)

\* entries.sort((a, b) => a.score - b.score) puts the entry of key a before
\* the entry of key b: by score, and by the cursor's order among equal scores
\* (the sort is stable).
SortsBefore(store, a, b) ==
    \/ LruScore(store[a]) < LruScore(store[b])
    \/ LruScore(store[a]) = LruScore(store[b]) /\ KeyIndex(a) < KeyIndex(b)

\* entries.slice(0, n) of the sorted entries: the keys with fewer than n
\* entries sorted before them
FirstSorted(store, n) ==
    { u \in DOMAIN store :
         Cardinality({ v \in DOMAIN store : SortsBefore(store, v, u) }) < n }

\* cleanupOldEntries once it has the store: count, sort, slice, delete.
cleanupOldEntriesByConfig(store, name) ==
    LET count == Cardinality(DOMAIN store)
    IN  IF count > MAX_CACHED_LINKS
        THEN MapDelete(store, FirstSorted(store, count - MAX_CACHED_LINKS))
        ELSE store

\* cleanupOldEntries (this.cleanupWorker is never created): the transaction is
\* opened on this.config.STORE_NAME but the store is looked up as
\* DEFAULT_CONFIG.STORE_NAME, which throws when the two differ; the error is
\* caught and nothing is deleted.  Otherwise, over MAX_CACHED_LINKS entries,
\* the count - MAX_CACHED_LINKS entries first in the order of their scores go.
cleanupOldEntries(store, name) ==
    IF name # DEFAULT_STORE_NAME THEN store
    ELSE cleanupOldEntriesByConfig(store, name)

\* storeInCache(url, trigger, priority) up to its await of cleanupOldEntries:
\* the content fetched, the entry put with accessCount 1 or one more than the
\* entry it replaces.
StoreInCache(url) ==
    /\ ~MicrotaskDue
    /\ stores < MaxStores
    /\ stores' = stores + 1
    /\ db' = MapSet(db, url,
                    [lastAccessed |-> now,
                     accessCount |-> IF url \in DOMAIN db THEN db[url].accessCount + 1 ELSE 1])
    /\ cleanups' = cleanups + 1
    /\ UNCHANGED <<storeName, storing, urlAnalytics, legResults>>
    /\ UNCHANGED <<prefetchQueue, prefetchedUrls, prefetchSemaphore, isPaused, executing, now>>
    /\ UNCHANGED swVars
    /\ UNCHANGED coordVars

\* The cleanupOldEntries that a storeInCache awaits
CleanupAfterStore ==
    /\ ~MicrotaskDue
    /\ cleanups > 0
    /\ cleanups' = cleanups - 1
    /\ db' = cleanupOldEntries(db, storeName)
    /\ UNCHANGED <<storeName, stores, storing, urlAnalytics, legResults>>
    /\ UNCHANGED <<prefetchQueue, prefetchedUrls, prefetchSemaphore, isPaused, executing, now>>
    /\ UNCHANGED swVars
    /\ UNCHANGED coordVars

\* The cleanupOldEntries of startCleanupScheduler's interval
CleanupScheduled ==
    /\ ~MicrotaskDue
    /\ db' = IF destroyed THEN db ELSE cleanupOldEntries(db, storeName)
    /\ UNCHANGED <<storeName, stores, cleanups, storing, urlAnalytics, legResults>>
    /\ UNCHANGED <<prefetchQueue, prefetchedUrls, prefetchSemaphore, isPaused, executing, now>>
    /\ UNCHANGED swVars
    /\ UNCHANGED coordVars

\* n entries of earlier page loads, the i-th last accessed (n - i + 1) seconds
\* before this page started, stored once or twice.
Stored(n) ==
    [url \in { OldUrl(i) : i \in 1..n } |->
        LET i == CHOOSE j \in 1..n : OldUrl(j) = url
        IN  [lastAccessed |-> 0 - (((n - i) + 1) * 1000), accessCount |-> 1 + (i % 2)]]

\* A page that starts on a store that is empty or nearly full, under the
\* default STORE_NAME or one of the user's (new Velocity({STORE_NAME: ...})).
InitStore ==
    /\ InitScheduler
    /\ InitChannelIdle
    /\ InitWorkerIdle
    /\ db \in { Stored(0), Stored(MAX_CACHED_LINKS - 1) }
    /\ storeName \in { DEFAULT_STORE_NAME, "pages" }
    /\ cleanups = 0
    /\ stores = 0
    /\ storing = <<>>
    /\ urlAnalytics = [href \in {} |-> 0]
    /\ legResults = [url \in {} |-> <<>>]

NextStore ==
    \/ \E url \in Paths : StoreInCache(url)
    \/ \E i \in 1..MaxStores : StoreInCache(OldUrl(MAX_CACHED_LINKS + i))
    \/ CleanupAfterStore
    \/ CleanupScheduled
    \/ Tick

SpecStore == InitStore /\ [][NextStore]_vars

\* ------------------------------------------- coordination: PREFETCH messages
\* The BroadcastChannel 'velocity-cache-channel' between the pages and the
\* worker.  Every PREFETCH message carries a messageId of its own.

\* isValidUrl of the worker: as the page's, without the vbscript: test
workerIsValidUrl(raw) ==
    /\ raw.wellFormed
    /\ originOf(raw) = PAGE_ORIGIN
    /\ raw.scheme = PAGE_SCHEME
    /\ \A scheme \in {"javascript", "data", "blob"} : ~includes(raw, scheme)

\* The priorities a PREFETCH message carries
Priorities == { sub.priority : sub \in Submissions }

PrefetchMessage(raw, priority, messageId) ==
    [type |-> "PREFETCH", url |-> raw, priority |-> priority, messageId |-> messageId]

\* broadcastResponse(messageId, success, message)
Response(messageId, success, message) ==
    [messageId |-> messageId, success |-> success, message |-> message]

\* A context other than the instance (another tab, another script) posts a
\* PREFETCH message; its promise is not the instance's.
ForeignPrefetch(raw, priority) ==
    /\ Len(outcomes) < MaxMessages
    /\ outcomes' = Append(outcomes, "foreign")
    /\ toWorker' = toWorker \cup {PrefetchMessage(raw, priority, Len(outcomes) + 1)}
    /\ UNCHANGED <<listeners, timers, toPage, swQueue, swPrefetching, destroyed>>
    /\ UNCHANGED fgVars
    /\ UNCHANGED swVars
    /\ UNCHANGED <<db, storeName, cleanups, stores, storing, urlAnalytics, legResults>>

\* prefetchQueue.set(url, item) of the worker
WorkerQueueSet(queue, item) ==
    IF \E i \in DOMAIN queue : queue[i].url = item.url
    THEN [i \in DOMAIN queue |-> IF queue[i].url = item.url THEN item ELSE queue[i]]
    ELSE Append(queue, item)

\* the worker's sort by priority, higher first, stable
RECURSIVE WorkerSorted(_)
WorkerSorted(queue) ==
    IF queue = <<>> THEN <<>>
    ELSE LET top  == CHOOSE i \in DOMAIN queue :
                        /\ \A j \in DOMAIN queue : queue[j].priority <= queue[i].priority
                        /\ \A j \in 1..(i - 1) : queue[j].priority < queue[i].priority
         IN  <<queue[top]>> \o WorkerSorted(SelectSeq(queue, LAMBDA e : e.url # queue[top].url))

\* processPrefetchQueue: nothing when 70% of the performance budget is in
\* use; else the first min(3, budget left) items by priority leave the queue
\* and executePrefetch starts for each (performanceCounter++).
processPrefetchQueue(queue, counter) ==
    IF 10 * counter >= 7 * PERFORMANCE_BUDGET
    THEN [queue |-> queue, batch |-> <<>>]
    ELSE LET left   == PERFORMANCE_BUDGET - counter
             limit  == IF left < WORKER_BATCH THEN left ELSE WORKER_BATCH
             sorted == WorkerSorted(queue)
             batch  == SubSeq(sorted, 1, IF Len(sorted) < limit THEN Len(sorted) ELSE limit)
             urls   == { batch[i].url : i \in DOMAIN batch }
         IN  [queue |-> SelectSeq(queue, LAMBDA e : e.url \notin urls), batch |-> batch]

\* handleBroadcastMessage of the worker for a PREFETCH message:
\* handlePrefetchRequest.  A url that is missing or not valid is answered
\* with a failure; any other is put on the queue and the queue processed.
HandlePrefetchRequest(msg) ==
    /\ msg \in toWorker
    /\ toWorker' = toWorker \ {msg}
    /\ IF ~workerIsValidUrl(msg.url)
       THEN /\ toPage' = toPage \cup {Response(msg.messageId, FALSE, "Invalid URL")}
            /\ UNCHANGED <<swQueue, swPrefetching, performanceCounter>>
       ELSE LET item == [url |-> msg.url, priority |-> msg.priority, messageId |-> msg.messageId]
                d    == processPrefetchQueue(WorkerQueueSet(swQueue, item), performanceCounter)
            IN  /\ swQueue' = d.queue
                /\ swPrefetching' = swPrefetching (+) SetToBag({ d.batch[i] : i \in DOMAIN d.batch })
                /\ performanceCounter' = performanceCounter + Len(d.batch)
                /\ UNCHANGED toPage
    /\ UNCHANGED <<outcomes, listeners, timers, destroyed>>
    /\ UNCHANGED <<cacheSize, cacheOps, caches, cacheMetrics, swNow>>
    /\ UNCHANGED fetchVars
    /\ UNCHANGED fgVars
    /\ UNCHANGED <<db, storeName, cleanups, stores, storing, urlAnalytics, legResults>>

\* The key of a prefetched url in the caches: the url without its fragment
KeyOf(raw) == [raw EXCEPT !.fragment = ""]

\* messageId: null of the subresource prefetches
NoMessageId == 0
\* priority: 3 of the subresource prefetches, and the priority from which
\* executePrefetch looks for subresources
SUBRESOURCE_PRIORITY == 3
CRITICAL_PRIORITY == 8

\* extractCriticalSubresources(html, url).slice(0, 3): the stylesheets and
\* the script the fetched page names, those that isValidUrl accepts.
SubresourceLists == { {}, {RawUrl("https", "self", "/b", "")} }

\* executePrefetch starts for each subresource of a critical page
prefetchSubresources(item, subresources) ==
    IF item.priority >= CRITICAL_PRIORITY
    THEN { [url |-> raw, priority |-> SUBRESOURCE_PRIORITY, messageId |-> NoMessageId] :
           raw \in subresources }
    ELSE {}

\* executePrefetch after its awaits.  An entry of the prefetch cache that
\* is not stale: 'Already cached'.  Else the fetch: a status 200 goes
\* through safeCachePut and is answered with success, anything else with
\* failure.  The finally: performanceCounter--.  After a status 200 of a
\* critical page, prefetchSubresources (each executePrefetch it starts:
\* performanceCounter++).
ExecutePrefetchSettled(item, outcome, subresources) ==
    /\ item \in BagToSet(swPrefetching)
    /\ LET hit     == cacheMatch(caches["PREFETCH"], KeyOf(item.url))
           fresh   == hit # <<>> /\ ~isResourceStale(hit[1], swNow)
           is200   == outcome \in {"ok", "noStore"}
           skipped == performanceCounter >= PERFORMANCE_BUDGET
           managed == manageCacheSize(caches["PREFETCH"], CACHE_NAMES["PREFETCH"], cacheMetrics, swNow)
           put     == cachePut(managed.cache, enhancedResponse(KeyOf(item.url), swNow, swNow))
           subs    == IF ~fresh /\ is200 THEN prefetchSubresources(item, subresources) ELSE {}
           message == IF fresh THEN "Already cached"
                      ELSE IF is200 THEN "Prefetched successfully"
                      ELSE IF outcome = "notOk" THEN "HTTP"
                      ELSE "Network Error"
       IN  /\ toPage' = toPage \cup {Response(item.messageId, fresh \/ is200, message)}
           /\ swPrefetching' = (swPrefetching (-) SetToBag({item})) (+) SetToBag(subs)
           /\ IF ~fresh /\ is200 /\ ~skipped
              THEN /\ caches' = [caches EXCEPT !["PREFETCH"] = put]
                   /\ cacheSize' = [cacheSize EXCEPT !["PREFETCH"] = Len(put)]
                   /\ cacheMetrics' = managed.metrics
              ELSE UNCHANGED <<caches, cacheSize, cacheMetrics>>
           /\ performanceCounter' = Cardinality(subs) +
                                    (IF ~fresh /\ is200 /\ skipped
                                     THEN performanceCounter - 2
                                     ELSE performanceCounter - 1)
    /\ UNCHANGED <<outcomes, listeners, timers, toWorker, swQueue, destroyed>>
    /\ UNCHANGED <<cacheOps, swNow>>
    /\ UNCHANGED fetchVars
    /\ UNCHANGED fgVars
    /\ UNCHANGED <<db, storeName, cleanups, stores, storing, urlAnalytics, legResults>>

\* ------------------------------------------- page: serviceWorkerPrefetch
\* outcomes[messageId] is the state of the promise serviceWorkerPrefetch
\* returned for that message: "pending", "resolved", "failed" (rejected on a
\* response) or "timeout" (rejected by the timer); "foreign" for a message
\* of another context.  listeners holds the messageId of every handleResponse
\* that is registered on the channel, timers that of every timeout armed.

\* serviceWorkerPrefetch(url, priority): arms the timeout, registers
\* handleResponse and posts the PREFETCH message.  On a channel that is
\* closed postMessage throws, which rejects the promise.
ServiceWorkerPrefetch(raw, priority) ==
    /\ Len(outcomes) < MaxMessages
    /\ LET messageId == Len(outcomes) + 1
       IN  /\ outcomes' = Append(outcomes, IF destroyed THEN "failed" ELSE "pending")
           /\ timers' = timers \cup {messageId}
           /\ listeners' = listeners \cup {messageId}
           /\ toWorker' = IF destroyed THEN toWorker
                          ELSE toWorker \cup {PrefetchMessage(raw, priority, messageId)}
    /\ UNCHANGED <<toPage, swQueue, swPrefetching, destroyed>>
    /\ UNCHANGED fgVars
    /\ UNCHANGED swVars
    /\ UNCHANGED <<db, storeName, cleanups, stores, storing, urlAnalytics, legResults>>

\* A promise settles once: resolve and reject of a settled promise do nothing
settle(states, messageId, state) ==
    IF states[messageId] = "pending" THEN [states EXCEPT ![messageId] = state] ELSE states

\* The timeout callback of serviceWorkerPrefetch: reject(...), nothing else.
TimeoutFires(messageId) ==
    /\ messageId \in timers
    /\ timers' = timers \ {messageId}
    /\ outcomes' = settle(outcomes, messageId, "timeout")
    /\ UNCHANGED <<listeners, toWorker, toPage, swQueue, swPrefetching, destroyed>>
    /\ UNCHANGED fgVars
    /\ UNCHANGED swVars
    /\ UNCHANGED <<db, storeName, cleanups, stores, storing, urlAnalytics, legResults>>

\* handleResponse as if it removed every listener
handleResponseRemovingAll(messageId, response, state) ==
    IF response.messageId = messageId
    THEN [outcomes |-> settle(state.outcomes, messageId,
                              IF response.success THEN "resolved" ELSE "failed"),
          timers |-> state.timers \ {messageId},
          listeners |-> {}]
    ELSE state

\* handleResponse of the call with this messageId, for a message event: on
\* its own messageId clearTimeout, removeEventListener, and resolve or reject
\* by event.data.success.
handleResponse(messageId, response, state) ==
    IF response.messageId = messageId
    THEN [outcomes |-> settle(state.outcomes, messageId,
                              IF response.success THEN "resolved" ELSE "failed"),
          timers |-> state.timers \ {messageId},
          listeners |-> state.listeners \ {messageId}]
    ELSE state

\* The listeners, one after the other, on a message event
RECURSIVE dispatchEvent(_, _, _)
dispatchEvent(ids, response, state) ==
    IF ids = {} THEN state
    ELSE LET messageId == CHOOSE id \in ids : \A other \in ids : id <= other
         IN  dispatchEvent(ids \ {messageId}, response, handleResponse(messageId, response, state))

\* A message event on the page's channel: handleBroadcastMessage (it writes
\* to the console) and every handleResponse registered.
MessageEvent(response) ==
    /\ ~destroyed
    /\ response \in toPage
    /\ toPage' = toPage \ {response}
    /\ LET d == dispatchEvent(listeners, response,
                              [outcomes |-> outcomes, timers |-> timers, listeners |-> listeners])
       IN  /\ outcomes' = d.outcomes
           /\ timers' = d.timers
           /\ listeners' = d.listeners
    /\ UNCHANGED <<toWorker, swQueue, swPrefetching, destroyed>>
    /\ UNCHANGED fgVars
    /\ UNCHANGED swVars
    /\ UNCHANGED <<db, storeName, cleanups, stores, storing, urlAnalytics, legResults>>

\* Another context on the channel posts a message that carries a messageId
ForeignResponse(messageId, success) ==
    /\ toPage' = toPage \cup {Response(messageId, success, "")}
    /\ UNCHANGED <<outcomes, listeners, timers, toWorker, swQueue, swPrefetching, destroyed>>
    /\ UNCHANGED fgVars
    /\ UNCHANGED swVars
    /\ UNCHANGED <<db, storeName, cleanups, stores, storing, urlAnalytics, legResults>>

\* destroy(): closes the channel, disconnects the observers, terminates the
\* cleanup worker and closes the database.  initVelocity calls it on the
\* instance it replaces.
Destroy ==
    /\ ~destroyed
    /\ destroyed' = TRUE
    /\ UNCHANGED <<outcomes, listeners, timers, toWorker, toPage, swQueue, swPrefetching>>
    /\ UNCHANGED fgVars
    /\ UNCHANGED swVars
    /\ UNCHANGED <<db, storeName, cleanups, stores, storing, urlAnalytics, legResults>>

\* ------------------------------------------------------ stored content
\* Fetched content, as the set of what it holds: plain text, an allowed tag
\* (p), a script element, an event-handler attribute, a javascript: URI.
Pages == { {"text", "p"},
           {"text", "p", "script"},
           {"text", "onclick", "javascript:"} }

\* The content of an entry whose fetch failed (content: null)
NoContent == {"null"}

\* domPurify.sanitize with ALLOWED_TAGS, ALLOWED_ATTR and KEEP_CONTENT: the
\* allowed tags and the text stay.
domPurifySanitize(html) == html \cap {"text", "p"}

\* The fallback: textContent/innerHTML escapes every tag into text, then the
\* replace calls take out the handlers and the javascript: scheme.
fallbackSanitize(html) ==
    (html \cap {"text"}) \cup (IF html \cap {"p", "script"} # {} THEN {"text"} ELSE {})

\* sanitizeHtml(html), this.domPurify loaded or not
sanitizeHtml(html, domPurify) ==
    IF domPurify THEN domPurifySanitize(html) ELSE fallbackSanitize(html)

\* fetchAndSanitizeContent(url): null when the response is not ok or the
\* fetch fails, else sanitizeHtml of the text.
fetchAndSanitizeContent(html, ok, domPurify) ==
    IF ok THEN sanitizeHtml(html, domPurify) ELSE NoContent

\* storeInCache(url, trigger, priority), with the content of the entry it
\* puts: what fetchAndSanitizeContent returned.
StoreContent(url, html, ok, domPurify) ==
    /\ ~MicrotaskDue
    /\ stores < MaxStores
    /\ stores' = stores + 1
    /\ db' = MapSet(db, url,
                    [lastAccessed |-> now,
                     accessCount |-> IF url \in DOMAIN db THEN db[url].accessCount + 1 ELSE 1,
                     content |-> fetchAndSanitizeContent(html, ok, domPurify)])
    /\ cleanups' = cleanups + 1
    /\ UNCHANGED <<storeName, storing, urlAnalytics, legResults>>
    /\ UNCHANGED <<prefetchQueue, prefetchedUrls, prefetchSemaphore, isPaused, executing, now>>
    /\ UNCHANGED swVars
    /\ UNCHANGED coordVars

\* safeCachePut(cache, request, response, cacheName), with the body of the
\* response it puts: responseToCache.body, under the two headers it adds.
PutBody(p, url, html) ==
    /\ cacheOps < MaxCacheOps
    /\ cacheOps' = cacheOps + 1
    /\ LET managed == manageCacheSize(caches[p], CACHE_NAMES[p], cacheMetrics, swNow)
           put     == cachePut(managed.cache, enhancedResponse(url, html, swNow))
       IN  IF performanceCounter >= PERFORMANCE_BUDGET
           THEN /\ cacheMetrics' = RecordAfterPut(p, cacheMetrics, url)
                /\ performanceCounter' = performanceCounter - 1
                /\ UNCHANGED <<caches, cacheSize>>
           ELSE /\ caches' = [caches EXCEPT ![p] = put]
                /\ cacheSize' = [cacheSize EXCEPT ![p] = Len(put)]
                /\ cacheMetrics' = RecordAfterPut(p, managed.metrics, url)
                /\ UNCHANGED performanceCounter
    /\ UNCHANGED swNow
    /\ UNCHANGED fetchVars
    /\ UNCHANGED fgVars
    /\ UNCHANGED dbVars
    /\ UNCHANGED coordVars

\* ------------------------------------------------------- stats queries
\* getCacheStats(): a readonly transaction that counts the store, and the
\* sizes of prefetchedUrls and prefetchQueue; it returns the numbers, or null
\* when the store cannot be opened.
GetCacheStats ==
    /\ UNCHANGED fgVars
    /\ UNCHANGED swVars
    /\ UNCHANGED dbVars
    /\ UNCHANGED coordVars

\* The CACHE_STATS message: it carries the messageId and no success
StatsMessage(messageId) == Response(messageId, FALSE, "CACHE_STATS")

\* handleCacheStatsRequest as if it counted itself among the active operations
HandleCacheStatsRequestCounted(messageId) ==
    /\ toPage' = toPage \cup {StatsMessage(messageId)}
    /\ performanceCounter' = performanceCounter + 1
    /\ UNCHANGED <<outcomes, listeners, timers, toWorker, swQueue, swPrefetching, destroyed>>
    /\ UNCHANGED <<cacheSize, cacheOps, caches, cacheMetrics, swNow>>
    /\ UNCHANGED fetchVars
    /\ UNCHANGED fgVars
    /\ UNCHANGED dbVars

\* handleBroadcastMessage of the worker for a GET_CACHE_STATS message:
\* handleCacheStatsRequest reads the keys of the four caches, cacheMetrics,
\* performanceCounter and the size of the queue, and broadcasts them.
HandleCacheStatsRequest(messageId) ==
    /\ toPage' = toPage \cup {StatsMessage(messageId)}
    /\ UNCHANGED <<outcomes, listeners, timers, toWorker, swQueue, swPrefetching, destroyed>>
    /\ UNCHANGED swVars
    /\ UNCHANGED fgVars
    /\ UNCHANGED dbVars

\* -------------------------------------------- worker: concurrent puts
\* safeCachePut await by await.  The worker has one thread, and every await
\* of safeCachePut and manageCacheSize lets the steps of other executions
\* run in between.  tasks holds the executions of safeCachePut in progress:
\* pc is the await it is suspended on (keys, match, delete, put), keys what
\* cache.keys() returned, victims what it selected.

PutTask(pc, p, url, keys, victims) ==
    [pc |-> pc, p |-> p, url |-> url, keys |-> keys, victims |-> victims]

\* The content of a response put now, other than the entries of the start
NEW_BODY == 2

\* safeCachePut starts: the budget check, performanceCounter++, and
\* manageCacheSize up to its await of cache.keys().
PutBegins(p, url) ==
    /\ cacheOps < MaxCacheOps
    /\ cacheOps' = cacheOps + 1
    /\ IF performanceCounter >= PERFORMANCE_BUDGET
       THEN /\ performanceCounter' = performanceCounter - 1
            /\ UNCHANGED tasks
       ELSE /\ performanceCounter' = performanceCounter + 1
            /\ tasks' = tasks (+) SetToBag({PutTask("keys", p, url, <<>>, <<>>)})
    /\ UNCHANGED <<cacheSize, caches, cacheMetrics, swNow>>
    /\ UNCHANGED <<lastResponse, otherOps, requests>>
    /\ UNCHANGED fgVars
    /\ UNCHANGED dbVars
    /\ UNCHANGED coordVars

\* cache.keys() resolves.  Under maxSize keys manageCacheSize is done and
\* safeCachePut awaits cache.put; else the cache.match of every key starts.
KeysRead(t) ==
    /\ t \in BagToSet(tasks)
    /\ t.pc = "keys"
    /\ LET keys == [i \in DOMAIN caches[t.p] |-> caches[t.p][i].url]
           next == IF Len(keys) >= maxSizeOf(CACHE_NAMES[t.p])
                   THEN PutTask("match", t.p, t.url, keys, <<>>)
                   ELSE PutTask("put", t.p, t.url, keys, <<>>)
       IN  tasks' = (tasks (-) SetToBag({t})) (+) SetToBag({next})
    /\ UNCHANGED <<cacheSize, performanceCounter, cacheOps, caches, cacheMetrics, swNow>>
    /\ UNCHANGED <<lastResponse, otherOps, requests>>
    /\ UNCHANGED fgVars
    /\ UNCHANGED dbVars
    /\ UNCHANGED coordVars

\* What cache.match gives for a key of the snapshot: the entry now under
\* that url, or nothing (its timestamp then counts as '0')
seenEntry(cache, url) ==
    IF cacheMatch(cache, url) # <<>> THEN cacheMatch(cache, url)[1]
    ELSE [url |-> url, timestamp |-> 0, stamped |-> FALSE, version |-> "", body |-> 0]

\* keysWithMetrics sorted, and toEvict = slice(0, keys.length - maxSize + 5)
selectVictims(keys, cache, cacheName, metrics, clock) ==
    LET scored == [i \in DOMAIN keys |-> WithScore(seenEntry(cache, keys[i]), metrics, clock)]
    IN  Slice(SortByScore(scored), (Len(keys) - maxSizeOf(cacheName)) + EVICT_BUFFER)

\* The cache.match calls resolve: the scores, the sort, the slice; the
\* cache.delete of every victim starts.
VictimsSelected(t) ==
    /\ t \in BagToSet(tasks)
    /\ t.pc = "match"
    /\ LET victims == selectVictims(t.keys, caches[t.p], CACHE_NAMES[t.p], cacheMetrics, swNow)
       IN  tasks' = (tasks (-) SetToBag({t}))
                    (+) SetToBag({PutTask("delete", t.p, t.url, t.keys, victims)})
    /\ UNCHANGED <<cacheSize, performanceCounter, cacheOps, caches, cacheMetrics, swNow>>
    /\ UNCHANGED <<lastResponse, otherOps, requests>>
    /\ UNCHANGED fgVars
    /\ UNCHANGED dbVars
    /\ UNCHANGED coordVars

\* The cache.delete calls resolve with cacheMetrics.delete: whatever is under
\* the url of a victim goes.  safeCachePut awaits cache.put.
VictimsDeleted(t) ==
    /\ t \in BagToSet(tasks)
    /\ t.pc = "delete"
    /\ LET gone == { t.victims[i].entry.url : i \in DOMAIN t.victims }
           left == SelectSeq(caches[t.p], LAMBDA e : e.url \notin gone)
       IN  /\ caches' = [caches EXCEPT ![t.p] = left]
           /\ cacheSize' = [cacheSize EXCEPT ![t.p] = Len(left)]
           /\ cacheMetrics' = MapDelete(cacheMetrics, gone)
    /\ tasks' = (tasks (-) SetToBag({t}))
                (+) SetToBag({PutTask("put", t.p, t.url, t.keys, t.victims)})
    /\ UNCHANGED <<performanceCounter, cacheOps, swNow>>
    /\ UNCHANGED <<lastResponse, otherOps, requests>>
    /\ UNCHANGED fgVars
    /\ UNCHANGED dbVars
    /\ UNCHANGED coordVars

\* cache.put resolves; the finally: performanceCounter--; then the record
\* of the strategy.
PutResolved(t) ==
    /\ t \in BagToSet(tasks)
    /\ t.pc = "put"
    /\ LET put == cachePut(caches[t.p], enhancedResponse(t.url, NEW_BODY, swNow))
       IN  /\ caches' = [caches EXCEPT ![t.p] = put]
           /\ cacheSize' = [cacheSize EXCEPT ![t.p] = Len(put)]
    /\ cacheMetrics' = RecordAfterPut(t.p, cacheMetrics, t.url)
    /\ performanceCounter' = performanceCounter - 1
    /\ tasks' = tasks (-) SetToBag({t})
    /\ UNCHANGED <<cacheOps, swNow>>
    /\ UNCHANGED <<lastResponse, otherOps, requests>>
    /\ UNCHANGED fgVars
    /\ UNCHANGED dbVars
    /\ UNCHANGED coordVars

\* The partition the concurrent puts go to, at the size manageCacheSize
\* starts to evict from
RACE_PARTITION == "STATIC"

RaceSize == maxSizeOf(CACHE_NAMES[RACE_PARTITION])

\* Requests for the newest entry of the partition and for a url it lacks
RaceUrls == { AssetUrl(RACE_PARTITION, RaceSize), AssetUrl(RACE_PARTITION, RaceSize + 1) }

InitRace ==
    /\ InitForeground
    /\ InitFetchIdle
    /\ performanceCounter = 0
    /\ cacheOps = 0
    /\ swNow = START_MINUTES
    /\ cacheSize = [p \in Partitions |-> IF p = RACE_PARTITION THEN RaceSize ELSE 0]
    /\ caches = [p \in Partitions |->
                    IF p = RACE_PARTITION THEN Filled(p, RaceSize) ELSE <<>>]
    /\ cacheMetrics = FilledMetrics(RACE_PARTITION, RaceSize, FALSE)

NextRace ==
    \/ \E url \in RaceUrls : PutBegins(RACE_PARTITION, url)
    \/ \E t \in BagToSet(tasks) : KeysRead(t)
    \/ \E t \in BagToSet(tasks) : VictimsSelected(t)
    \/ \E t \in BagToSet(tasks) : VictimsDeleted(t)
    \/ \E t \in BagToSet(tasks) : PutResolved(t)

SpecRace == InitRace /\ [][NextRace]_vars

\* ======================================================= specifications

Init == InitForeground /\ InitWorkerIdle

\* The scheduler under the clock.  pausePrefetching is left to SpecPause: it
\* sets a flag that no code reads.
Next ==
    \/ \E raw \in RawUrls, sub \in Submissions : ProcessLink(raw, sub)
    \/ \E e \in ExecKinds : SettleReturned(e)
    \/ \E e \in ExecKinds : LegsSettled(e)
    \/ \E e \in ExecKinds : StoreSettled(e)
    \/ ResumePrefetching
    \/ \E url \in Paths : InvalidateCache(url)
    \/ Tick
    \/ LongWait

Spec == Init /\ [][Next]_vars

\* The scheduler with pause and resume, the clock standing still.
NextPause ==
    \/ \E raw \in RawUrls, sub \in Submissions : ProcessLink(raw, sub)
    \/ \E e \in ExecKinds : SettleReturned(e)
    \/ \E e \in ExecKinds : LegsSettled(e)
    \/ \E e \in ExecKinds : StoreSettled(e)
    \/ PausePrefetching
    \/ ResumePrefetching
    \/ \E url \in Paths : InvalidateCache(url)

SpecPause == Init /\ [][NextPause]_vars

\* The scheduler and the worker's PREFETCH handler under submissions of
\* the urls that are not valid and of one that is.
AdmitUrls == BadUrls \cup {RawUrl("https", "self", "/a", "")}

NextAdmit ==
    \/ \E raw \in AdmitUrls, sub \in Submissions : ProcessLink(raw, sub)
    \/ \E e \in ExecKinds : SettleReturned(e)
    \/ \E e \in ExecKinds : LegsSettled(e)
    \/ \E e \in ExecKinds : StoreSettled(e)
    \/ \E raw \in AdmitUrls, priority \in Priorities : ForeignPrefetch(raw, priority)
    \/ \E msg \in toWorker : HandlePrefetchRequest(msg)
    \/ \E item \in BagToSet(swPrefetching), outcome \in Outcomes, subresources \in SubresourceLists :
          ExecutePrefetchSettled(item, outcome, subresources)

SpecAdmit == Init /\ [][NextAdmit]_vars

\* ============================================== claims on the foreground

\* The executions with their legs in flight, by item.
InFlightKinds == { e \in ExecKinds : e.phase = "prefetching" }

\* This step starts a prefetchResource execution that goes on to fetch for k's item.
FetchStarted(k) == CopiesIn(k, executing') > CopiesIn(k, executing)

\* url has an entry in the queue.
Pending(queue, url) == \E i \in DOMAIN queue : queue[i].url = url

\* C1: in every reachable state the number of prefetchResource executions
\* dispatched and not yet completed, and prefetchSemaphore that counts them,
\* are at most MAX_CONCURRENT_PREFETCH.
C1_CeilingRespected ==
    /\ prefetchSemaphore <= MAX_CONCURRENT_PREFETCH
    /\ BagCardinality(executing) <= MAX_CONCURRENT_PREFETCH

\* C1 witness: the ceiling is reached while a submission is held back in the queue.
C1_CeilingReached ==
    /\ prefetchSemaphore = MAX_CONCURRENT_PREFETCH
    /\ BagCardinality(executing) = MAX_CONCURRENT_PREFETCH
    /\ prefetchQueue # <<>>

\* C2: of the submissions for one url that race while a request for it is
\* pending or in flight (not yet recorded as served), only the highest is
\* dispatched: no step starts a fetching execution for a url while an execution
\* of at least its priority is in flight for that url, or in place of a pending
\* entry of higher priority for that url.
C2_OnlyHighestDispatched ==
    [][\A k \in InFlightKinds :
          FetchStarted(k) =>
             /\ ~\E e \in BagToSet(executing) :
                    e.phase = "prefetching" /\ e.url = k.url /\ e.priority > k.priority
             /\ ~\E i \in DOMAIN prefetchQueue :
                    prefetchQueue[i].url = k.url /\ prefetchQueue[i].priority > k.priority
      ]_vars

\* C3: a drain runs on every completion of an execution, so a completion (a
\* step that releases a slot, prefetching not paused) leaves nothing pending
\* unless the ceiling is reached again.
C3_DrainOnCompletion ==
    [][(prefetchSemaphore' < prefetchSemaphore /\ ~isPaused /\ ~MicrotaskDue')
          => (prefetchQueue' = <<>> \/ prefetchSemaphore' >= MAX_CONCURRENT_PREFETCH)
      ]_vars

\* C4: between pausePrefetching and the next resumePrefetching no step
\* dispatches: prefetchSemaphore is not incremented and no execution starts.
C4_NoDispatchWhilePaused ==
    [][(isPaused /\ isPaused')
          => /\ prefetchSemaphore' <= prefetchSemaphore
             /\ BagCardinality(executing') <= BagCardinality(executing)
      ]_vars

\* C5: a submission of strictly higher priority than the entry served for its
\* url is accepted, and when it is dispatched its execution performs a new
\* prefetch: after the processLink step it is pending or fetching.
C5_HigherPriorityNeverDropped ==
    [][\A raw \in RawUrls, sub \in Submissions :
          LET url == sanitizeUrl(raw)
              existing == prefetchedUrls[url]
          IN  (/\ ProcessLink(raw, sub)
               /\ isValidUrl(raw)
               /\ existing # NoEntry
               /\ sub.priority > existing.priority)
              => \/ Pending(prefetchQueue', url)
                 \/ FetchStarted(Exec(url, sub.trigger, sub.priority, "prefetching"))
      ]_vars

\* C6: the queue holds at most one entry per url, and an entry that stays
\* pending over a step is either unchanged (priority, trigger, enqueue time)
\* or replaced by an entry of strictly higher priority.
C6_PendingEntryKeptOrRaised ==
    [][/\ \A i, j \in DOMAIN prefetchQueue' :
             prefetchQueue'[i].url = prefetchQueue'[j].url => i = j
       /\ \A i \in DOMAIN prefetchQueue, j \in DOMAIN prefetchQueue' :
             prefetchQueue[i].url = prefetchQueue'[j].url
                => \/ prefetchQueue'[j] = prefetchQueue[i]
                   \/ prefetchQueue'[j].priority > prefetchQueue[i].priority
      ]_vars

\* C7: once more than 60 s have passed since a url was served, processLink
\* accepts a valid submission for it whatever its priority.
C7_AcceptedAfterWindow ==
    \A raw \in RawUrls, sub \in Submissions :
        LET existing == prefetchedUrls[sanitizeUrl(raw)]
        IN  (/\ isValidUrl(raw)
             /\ existing # NoEntry
             /\ (now - existing.timestamp) > RECENT_MS)
            => Admission(raw, sub.priority, prefetchedUrls) = "accepted"

\* The entry served for url is less than 60 s old and has at least this priority.
ServedRecently(url, priority) ==
    /\ prefetchedUrls[url] # NoEntry
    /\ prefetchedUrls[url].priority >= priority
    /\ (now - prefetchedUrls[url].timestamp) < RECENT_MS

\* C8: a submission of priority lower than or equal to that of an entry served
\* for its url less than 60 s ago is superseded by processLink, and no step
\* starts a fetching execution for a url and priority so served.
C8_NoRefetchWithinWindow ==
    [][/\ \A raw \in RawUrls, sub \in Submissions :
             (isValidUrl(raw) /\ ServedRecently(sanitizeUrl(raw), sub.priority))
                => Admission(raw, sub.priority, prefetchedUrls) = "superseded"
       /\ \A k \in InFlightKinds :
             FetchStarted(k) => ~ServedRecently(k.url, k.priority)
      ]_vars

\* C8 witness: an execution has just returned on the 60 s check for a url
\* served less than 60 s ago, and a submission for that url would be superseded.
C8_RecentlyServedSkipped ==
    /\ MicrotaskDue
    /\ \E raw \in RawUrls, sub \in Submissions :
          /\ isValidUrl(raw)
          /\ ServedRecently(sanitizeUrl(raw), sub.priority)
          /\ ~Pending(prefetchQueue, sanitizeUrl(raw))

\* C9: a drain dispatches in descending priority, among equal priorities the
\* earliest enqueue time first, and never dispatches a request while one of
\* strictly higher priority (or of equal priority and earlier enqueue time)
\* stays pending.  Stated of the drain resumePrefetching would run in the state.
Before(a, b) ==
    \/ a.priority > b.priority
    \/ (a.priority = b.priority /\ a.timestamp <= b.timestamp)

C9_DrainOrder ==
    ~MicrotaskDue =>
        LET d == processQueue(prefetchQueue, prefetchSemaphore, prefetchedUrls, now)
        IN  /\ \A i, j \in DOMAIN d.started : i < j => Before(d.started[i], d.started[j])
            /\ \A i \in DOMAIN d.started, j \in DOMAIN d.queue :
                  Before(d.started[i], d.queue[j])

\* C13: when the cleanupOldEntries that a storeInCache awaits has run, the
\* object store holds at most MAX_CACHED_LINKS entries, and what it removed
\* are exactly the count - MAX_CACHED_LINKS entries with the smallest LRU
\* score (none when count is not over MAX_CACHED_LINKS).
C13_StoreBounded ==
    [][(cleanups' < cleanups)
       => LET count   == Cardinality(DOMAIN db)
              removed == DOMAIN db \ DOMAIN db'
          IN  /\ Cardinality(DOMAIN db') <= MAX_CACHED_LINKS
              /\ Cardinality(removed) =
                    (IF count > MAX_CACHED_LINKS THEN count - MAX_CACHED_LINKS ELSE 0)
              /\ \A gone \in removed, kept \in DOMAIN db' :
                    LruScore(db[gone]) <= LruScore(db[kept])]_vars

\* ================================================== claims on the worker

\* C10: each partition is bounded by its own capacity in MAX_CACHE_SIZES: no
\* step leaves a partition over its capacity, and a step deletes entries of a
\* partition (evicts) only when it found the partition at or over its capacity.
C10_OwnCapacity ==
    [][\A p \in Partitions :
          /\ cacheSize'[p] <= MAX_CACHE_SIZES[p]
          /\ (cacheSize'[p] < cacheSize[p]) => (cacheSize[p] >= MAX_CACHE_SIZES[p])
      ]_vars

\* The entries of partition p that a step removes, and the ones it keeps
Removed(p) == { caches[p][i] : i \in { j \in DOMAIN caches[p] :
                                        caches[p][j].url \notin UrlsOf(caches'[p]) } }
Retained(p) == { caches[p][i] : i \in { j \in DOMAIN caches[p] :
                                         caches[p][j].url \in UrlsOf(caches'[p]) } }

\* C11: with no concurrent writer, a put of a new key on a partition that holds
\* exactly its own capacity N of entries leaves it with at most N - 5 + 1
\* entries, and no removed entry has a higher eviction score than an entry of
\* the pre-insertion set that stays.
C11_EvictBeforeInsert ==
    [][\A p \in Partitions :
          (/\ performanceCounter < PERFORMANCE_BUDGET
           /\ Len(caches[p]) = MAX_CACHE_SIZES[p]
           /\ PutEntry(p))
          => /\ Len(caches'[p]) <= (MAX_CACHE_SIZES[p] - EVICT_BUFFER) + 1
             /\ \A gone \in Removed(p), kept \in Retained(p) :
                   ~ScoreAbove(WithScore(gone, cacheMetrics, swNow),
                               WithScore(kept, cacheMetrics, swNow))]_vars

\* The metrics manageCacheSize reads for an entry
MetricsOf(entry) == MetricsOr(cacheMetrics, entry.url, TimedDefault)

\* a was cached earlier, was last accessed longer ago and has fewer hits than b
OlderAndLessUsed(a, b) ==
    /\ timestampOf(a) < timestampOf(b)
    /\ MetricsOf(a).timed /\ MetricsOf(b).timed
    /\ MetricsOf(a).lastAccess < MetricsOf(b).lastAccess
    /\ MetricsOf(a).hits < MetricsOf(b).hits

\* C12: eviction never removes an entry while it keeps another entry of the
\* same partition that was cached earlier, was last accessed longer ago and
\* has a smaller access count.
C12_OldestLeastAccessedEvicted ==
    [][\A p \in Partitions :
          \A gone \in Removed(p), kept \in Retained(p) : ~OlderAndLessUsed(kept, gone)]_vars

\* ------------------------------------------- claims on the fetch strategies
\* A strategy returns an entry of the cache in this step
ServedFromCache ==
    /\ lastResponse'.seq = lastResponse.seq + 1
    /\ lastResponse'.source = "cache"

\* C14: every cache hit the worker serves, whichever strategy serves it
\* (cache-first, stale-while-revalidate or the network-first fallback), sets
\* the key's last-access time to now and increments its hit count by
\* exactly one.
C14_HitRecorded ==
    [][ServedFromCache
       => LET url    == lastResponse'.url
              before == MetricsOr(cacheMetrics, url, TimedDefault)
          IN  /\ url \in DOMAIN cacheMetrics'
              /\ cacheMetrics'[url].hits = before.hits + 1
              /\ cacheMetrics'[url].timed
              /\ cacheMetrics'[url].lastAccess = swNow]_vars

\* The entry carries the metadata of the running version
CurrentVersion(entry) == entry.stamped /\ entry.version = VERSION

\* C15: an entry of the cache that lacks the version and timestamp metadata,
\* or whose version is not the running one, is never returned: the read
\* that finds it treats it as a miss and deletes it from the partition.
C15_StaleVersionNeverServed ==
    [][\A t \in BagToSet(tasks) :
          (CacheMatched(t) \/ FallbackMatched(t))
          => LET hit == cacheMatch(caches[t.p], t.request.url)
             IN  (hit # <<>> /\ ~CurrentVersion(hit[1]))
                 => /\ ~ServedFromCache
                    /\ cacheMatch(caches'[t.p], t.request.url) = <<>>]_vars

\* The strategy execution the fetch event for `request` starts
StartedFor(request) ==
    { t \in BagToSet(tasks') : t.request = request /\ CopiesIn(t, tasks') > CopiesIn(t, tasks) }

\* static, image, media -> cache-first on the static partition; html and
\* dynamic -> network-first on the dynamic partition; api -> network-first
\* on the api partition with half the timeout
RunsByClass(t, class) ==
    /\ class \in {"static", "image", "media"}
          => t.chain = "cacheFirst" /\ t.p = "STATIC"
    /\ class \in {"html", "dynamic"}
          => t.chain = "networkFirst" /\ t.p = "DYNAMIC" /\ t.timeout = NETWORK_FIRST_TIMEOUT
    /\ class = "api"
          => t.chain = "networkFirst" /\ t.p = "API" /\ 2 * t.timeout = NETWORK_FIRST_TIMEOUT

RunsStaleWhileRevalidate(t) == t.chain = "staleWhileRevalidate" /\ t.p = "PREFETCH"

\* C16 as stated: the class alone determines the strategy (static, image,
\* media: cache-first, static partition; html, dynamic: network-first,
\* dynamic partition; api: network-first, api partition, half the timeout),
\* and every request that carries the X-Prefetch-Source header is handled
\* stale-while-revalidate on the prefetch partition.
C16_EveryTaggedRequestRevalidates ==
    [][\A request \in Requests :
          FetchEvent(request)
          => \A t \in StartedFor(request) :
                IF request.prefetchSource
                THEN RunsStaleWhileRevalidate(t)
                ELSE RunsByClass(t, classifyRequest(request))]_vars

\* C16, amended: the class alone determines the strategy, as above, and
\* every request of class prefetch (one that carries X-Prefetch-Source and
\* that no earlier rule of the classifier matches: no static, image or
\* media extension, no API path, no Accept of text/html) is handled
\* stale-while-revalidate on the prefetch partition.
C16_StrategyByClass ==
    [][\A request \in Requests :
          FetchEvent(request)
          => /\ StartedFor(request) # {}
             /\ \A t \in StartedFor(request) :
                   /\ RunsByClass(t, classifyRequest(request))
                   /\ classifyRequest(request) = "prefetch" => RunsStaleWhileRevalidate(t)
                   /\ RunsStaleWhileRevalidate(t) => request.prefetchSource]_vars

\* C16 witness: a tagged request runs stale-while-revalidate while a tagged
\* request for a stylesheet runs cache-first.
C16_TaggedHandledBothWays ==
    /\ \E t \in BagToSet(tasks) : t.request.prefetchSource /\ RunsStaleWhileRevalidate(t)
    /\ \E t \in BagToSet(tasks) : t.request.prefetchSource /\ t.chain = "cacheFirst"

\* The partition holds, for the task's url, the response of `body` as
\* safeCachePut stamps it now
Written(t, body) ==
    cacheMatch(caches'[t.p], t.request.url) = <<enhancedResponse(t.request.url, body, swNow)>>

\* The task goes on to the rest of safeCachePut and has not returned
AwaitsPut(t) ==
    /\ \E next \in BagToSet(tasks') : next.pc = "put" /\ next.request = t.request
    /\ performanceCounter' = performanceCounter + 1
    /\ UNCHANGED <<lastResponse, caches>>

\* networkFirstStrategy's way out after a response of another status or a
\* failed fetch: the cache hit if there is one, else that response, else
\* the offline response
FallsBack(t) ==
    LET hit == cacheMatch(caches[t.p], t.request.url)
    IN  IF hit # <<>> THEN ReturnCached(t, hit[1])
        ELSE IF t.status = 0 THEN ReturnOffline(t)
        ELSE ReturnNetwork(t, NOT_OK_STATUS, t.body)

\* C17 as stated: network-first returns the network's response if the fetch
\* returns status 200, writing it to the partition when shouldCacheResponse
\* holds; otherwise the cache hit if there is one; otherwise the response of
\* another status, or the offline response after a failure or timeout.
C17_NetworkFirstWritesThrough ==
    [][\A t \in BagToSet(tasks) :
          t.chain = "networkFirst"
          => /\ \A outcome \in Outcomes :
                   FetchSettled(t, outcome)
                   => IF outcome \in {"ok", "noStore"}
                      THEN IF shouldCacheResponse(t.request, outcome = "noStore", t.isAPI)
                           THEN AwaitsPut(t)
                           ELSE ReturnNetwork(t, 200, swNow) /\ UNCHANGED caches
                      ELSE UNCHANGED <<lastResponse, caches>>
             /\ \A accepted \in BOOLEAN :
                   PutSettled(t, accepted) => ReturnNetwork(t, 200, t.body) /\ Written(t, t.body)
             /\ FallbackMatched(t) => FallsBack(t) /\ UNCHANGED caches]_vars

\* C17, amended: network-first returns the network's response if the fetch
\* returns status 200; when shouldCacheResponse holds it first hands the
\* response to safeCachePut, which writes it to the partition unless
\* PERFORMANCE_BUDGET operations are in progress or the Cache API rejects
\* the put.  Otherwise it returns the cache hit if there is one; otherwise
\* the response of another status, or the offline response after a failure
\* or timeout.
C17_NetworkFirstReturns ==
    [][\A t \in BagToSet(tasks) :
          t.chain = "networkFirst"
          => /\ \A outcome \in Outcomes :
                   FetchSettled(t, outcome)
                   => IF outcome \in {"ok", "noStore"}
                      THEN IF /\ shouldCacheResponse(t.request, outcome = "noStore", t.isAPI)
                              /\ performanceCounter < PERFORMANCE_BUDGET
                           THEN AwaitsPut(t)
                           ELSE ReturnNetwork(t, 200, swNow) /\ UNCHANGED caches
                      ELSE UNCHANGED <<lastResponse, caches>>
             /\ \A accepted \in BOOLEAN :
                   PutSettled(t, accepted)
                   => /\ ReturnNetwork(t, 200, t.body)
                      /\ accepted => Written(t, t.body)
             /\ FallbackMatched(t) => FallsBack(t) /\ UNCHANGED caches]_vars

\* C17 witness: network-first has returned the entry of the cache after a
\* failed fetch, and before that a status 200 it wrote through.
C17_FallbackAfterWriteThrough ==
    /\ lastResponse.seq = 2
    /\ lastResponse.via = "networkFirst"
    /\ lastResponse.source = "cache"
    /\ lastResponse.body >= START_MINUTES

\* updateCacheInBackground starts for the task's request in this step
UpdateStarted(t) ==
    \E u \in BagToSet(tasks') :
       /\ u.chain = "update"
       /\ u.request = t.request
       /\ CopiesIn(u, tasks') > CopiesIn(u, tasks)

\* No fetch starts in this step
NoFetchStarted ==
    \A n \in BagToSet(tasks') : n.pc = "fetch" => CopiesIn(n, tasks') <= CopiesIn(n, tasks)

\* cache-first on a hit: the entry is returned in the step that finds it,
\* and the background refresh starts iff the entry is more than
\* MAX_AGE_MINUTES old; on a miss the task goes to its one fetch.  The
\* background refresh never returns a response.
CacheFirstLookup(t) ==
    LET hit == cacheMatch(caches[t.p], t.request.url)
    IN  IF hit # <<>>
        THEN /\ ReturnCached(t, hit[1])
             /\ UpdateStarted(t) <=> (swNow - hit[1].timestamp) > MAX_AGE_MINUTES
             /\ CopiesIn(t, tasks') = CopiesIn(t, tasks) - 1
             /\ UNCHANGED caches
        ELSE /\ At(t, "fetch") \in BagToSet(tasks')
             /\ UNCHANGED <<lastResponse, caches>>

\* cache-first after a fetch that did not return status 200: the response
\* is returned, or the offline response after a failure, nothing written
CacheFirstNoWrite(t, outcome) ==
    /\ IF outcome = "failed" THEN ReturnOffline(t) ELSE ReturnNetwork(t, NOT_OK_STATUS, swNow)
    /\ NoFetchStarted
    /\ UNCHANGED caches

\* C18 as stated: cache-first returns an entry the partition holds without
\* waiting for the network and starts a background refetch-and-replace iff
\* the entry is older than one hour, whose outcome never changes a response
\* returned; on a miss it makes exactly one fetch, a status 200 is written
\* to the partition and returned, another status is returned and not
\* written, a failure gives the offline response and writes nothing.
C18_CacheFirstWrites ==
    [][\A t \in BagToSet(tasks) :
          /\ t.chain = "cacheFirst"
             => /\ CacheMatched(t) => CacheFirstLookup(t)
                /\ \A outcome \in Outcomes :
                      FetchSettled(t, outcome)
                      => IF outcome \in {"ok", "noStore"}
                         THEN AwaitsPut(t) /\ NoFetchStarted
                         ELSE CacheFirstNoWrite(t, outcome)
                /\ \A accepted \in BOOLEAN :
                      PutSettled(t, accepted) => ReturnNetwork(t, 200, t.body) /\ Written(t, t.body)
          /\ t.chain = "update"
             => /\ \A outcome \in Outcomes : FetchSettled(t, outcome) => UNCHANGED lastResponse
                /\ \A accepted \in BOOLEAN : PutSettled(t, accepted) => UNCHANGED lastResponse]_vars

\* C18, amended: as C18, but a status 200 is handed to safeCachePut and
\* returned, and safeCachePut writes it to the partition unless
\* PERFORMANCE_BUDGET operations are in progress or the Cache API rejects
\* the put.
C18_CacheFirstReturns ==
    [][\A t \in BagToSet(tasks) :
          /\ t.chain = "cacheFirst"
             => /\ CacheMatched(t) => CacheFirstLookup(t)
                /\ \A outcome \in Outcomes :
                      FetchSettled(t, outcome)
                      => IF outcome \in {"ok", "noStore"}
                         THEN /\ NoFetchStarted
                              /\ IF performanceCounter < PERFORMANCE_BUDGET
                                 THEN AwaitsPut(t)
                                 ELSE ReturnNetwork(t, 200, swNow) /\ UNCHANGED caches
                         ELSE CacheFirstNoWrite(t, outcome)
                /\ \A accepted \in BOOLEAN :
                      PutSettled(t, accepted)
                      => /\ ReturnNetwork(t, 200, t.body)
                         /\ accepted => Written(t, t.body)
          /\ t.chain = "update"
             => /\ \A outcome \in Outcomes : FetchSettled(t, outcome) => UNCHANGED lastResponse
                /\ \A accepted \in BOOLEAN : PutSettled(t, accepted) => UNCHANGED lastResponse]_vars

\* C18 witness: cache-first has returned an entry more than an hour old, the
\* background refresh has replaced it, and the response returned is still
\* the old entry.
C18_StaleHitRefreshed ==
    /\ lastResponse.via = "cacheFirst"
    /\ lastResponse.source = "cache"
    /\ tasks = EmptyBag
    /\ \E i \in DOMAIN caches["STATIC"] :
          /\ caches["STATIC"][i].url = lastResponse.url
          /\ caches["STATIC"][i].body > lastResponse.body + MAX_AGE_MINUTES

\* C19: when stale-while-revalidate finds no hit and the fetch returns
\* status 200, it returns the fetch's response, and from the moment it has
\* returned a get on that key finds the value now cached.
C19_RevalidatedValueCached ==
    (/\ lastResponse.via = "staleWhileRevalidate"
     /\ lastResponse.source = "network"
     /\ lastResponse.status = 200)
    => \E i \in DOMAIN caches["PREFETCH"] :
          /\ caches["PREFETCH"][i].url = lastResponse.url
          /\ caches["PREFETCH"][i].body >= lastResponse.body

\* safeCachePut starts for the task's request in this step and nothing
\* awaits it
PutStarted(t) ==
    /\ \E n \in BagToSet(tasks') :
          /\ n.chain = "put"
          /\ n.request = t.request
          /\ CopiesIn(n, tasks') > CopiesIn(n, tasks)
    /\ performanceCounter' = performanceCounter + 1

\* stale-while-revalidate on a hit: the entry is returned in the step that
\* finds it, with the fetch still to settle
RevalidateLookup(t) ==
    LET hit == cacheMatch(caches[t.p], t.request.url)
    IN  hit # <<>>
        => /\ ReturnCached(t, hit[1])
           /\ [At(t, "fetch") EXCEPT !.waiting = FALSE] \in BagToSet(tasks')
           /\ UNCHANGED caches

\* C20 as stated: stale-while-revalidate with a hit returns the hit at once
\* whatever the fetch comes to; a fetch that returns status 200 replaces the
\* entry of the cache; a failure, a timeout or another status leaves the
\* entry as it is.
C20_RevalidationReplaces ==
    [][\A t \in BagToSet(tasks) :
          /\ t.chain = "staleWhileRevalidate"
             => /\ CacheMatched(t) => RevalidateLookup(t)
                /\ \A outcome \in Outcomes :
                      (FetchSettled(t, outcome) /\ ~t.waiting)
                      => /\ UNCHANGED <<lastResponse, caches>>
                         /\ PutStarted(t) <=> outcome \in {"ok", "noStore"}
          /\ t.chain = "put"
             => \A accepted \in BOOLEAN :
                   PutSettled(t, accepted) => Written(t, t.body) /\ UNCHANGED lastResponse]_vars

\* C20, amended: stale-while-revalidate with a hit returns the hit at once
\* whatever the fetch comes to; a fetch that returns status 200 is handed to
\* safeCachePut, which replaces the entry of the cache unless
\* PERFORMANCE_BUDGET operations are in progress or the Cache API rejects
\* the put; a failure, a timeout or another status leaves the entry as it
\* is.
C20_RevalidationPuts ==
    [][\A t \in BagToSet(tasks) :
          /\ t.chain = "staleWhileRevalidate"
             => /\ CacheMatched(t) => RevalidateLookup(t)
                /\ \A outcome \in Outcomes :
                      (FetchSettled(t, outcome) /\ ~t.waiting)
                      => /\ UNCHANGED <<lastResponse, caches>>
                         /\ PutStarted(t) <=> (/\ outcome \in {"ok", "noStore"}
                                                /\ performanceCounter < PERFORMANCE_BUDGET)
          /\ t.chain = "put"
             => \A accepted \in BOOLEAN :
                   PutSettled(t, accepted)
                   => /\ accepted => Written(t, t.body)
                      /\ UNCHANGED lastResponse]_vars

\* C20 witness: stale-while-revalidate has returned the hit, and the fetch
\* that returned status 200 afterwards has replaced the entry.
C20_HitReturnedEntryReplaced ==
    /\ lastResponse.via = "staleWhileRevalidate"
    /\ lastResponse.source = "cache"
    /\ tasks = EmptyBag
    /\ \E i \in DOMAIN caches["PREFETCH"] :
          /\ caches["PREFETCH"][i].url = lastResponse.url
          /\ caches["PREFETCH"][i].body > lastResponse.body

\* ------------------------------------------------ claims on the fetch path
\* The requests the worker took over with respondWith and has not answered
Unanswered(bag) ==
    LET waiting == { t \in BagToSet(bag) : t.waiting }
    IN  BagCardinality([t \in waiting |-> CopiesIn(t, bag)])

\* C21: every request the worker's fetch path handles (through
\* handleFetchWithStrategy or the bypass branch) comes to a defined
\* response, one of the network, an entry of the cache or the offline
\* response of status 503, whatever fails of the network, the timeout and
\* the Cache API; the promise given to respondWith never rejects.
C21_AlwaysDefinedResponse ==
    [][/\ lastResponse'.source # "rejected"
       /\ Unanswered(tasks') < Unanswered(tasks)
          => /\ Unanswered(tasks') = Unanswered(tasks) - 1
             /\ lastResponse'.seq = lastResponse.seq + 1
             /\ lastResponse'.source \in {"network", "cache", "offline"}
             /\ lastResponse'.source = "offline" => lastResponse'.status = OFFLINE_STATUS
       /\ lastResponse'.seq + Unanswered(tasks') = requests']_vars

\* C21 witness: the one request so far was for an entry the static cache
\* holds, the Cache API failed the read, and the offline response was
\* returned.
C21_ReadFailureAnsweredOffline ==
    /\ requests = 1
    /\ lastResponse.seq = 1
    /\ lastResponse.via = "cacheFirst"
    /\ lastResponse.source = "offline"
    /\ lastResponse.status = OFFLINE_STATUS
    /\ cacheMatch(caches["STATIC"], lastResponse.url) # <<>>

\* serviceWorkerPrefetch of the page against the worker's PREFETCH handler.
ChannelUrls == {RawUrl("https", "self", "/a", ""), RawUrl("https", "other", "/a", "")}

NextChannel ==
    \/ \E raw \in ChannelUrls, priority \in Priorities : ServiceWorkerPrefetch(raw, priority)
    \/ \E messageId \in timers : TimeoutFires(messageId)
    \/ \E response \in toPage : MessageEvent(response)
    \/ \E messageId \in 1..MaxMessages, success \in BOOLEAN : ForeignResponse(messageId, success)
    \/ \E msg \in toWorker : HandlePrefetchRequest(msg)
    \/ \E item \in BagToSet(swPrefetching), outcome \in Outcomes, subresources \in SubresourceLists :
          ExecutePrefetchSettled(item, outcome, subresources)

SpecChannel == Init /\ [][NextChannel]_vars

\* An instance that is destroyed at some moment: its scheduler, its
\* serviceWorkerPrefetch calls with the responses the channel delivers, and
\* the interval of startCleanupScheduler.
NextDestroy ==
    \/ \E raw \in ChannelUrls, sub \in Submissions : ProcessLink(raw, sub)
    \/ \E e \in ExecKinds : SettleReturned(e)
    \/ \E e \in ExecKinds : LegsSettled(e)
    \/ \E e \in ExecKinds : StoreSettled(e)
    \/ \E raw \in ChannelUrls \ BadUrls, priority \in Priorities :
          ServiceWorkerPrefetch(raw, priority)
    \/ \E messageId \in timers : TimeoutFires(messageId)
    \/ \E response \in toPage : MessageEvent(response)
    \/ \E messageId \in 1..MaxMessages : ForeignResponse(messageId, TRUE)
    \/ CleanupScheduled
    \/ Destroy

SpecDestroy == Init /\ [][NextDestroy]_vars

\* The two write paths with the content they persist.
NextSanitize ==
    \/ \E url \in Paths, html \in Pages, ok \in BOOLEAN, domPurify \in BOOLEAN :
          StoreContent(url, html, ok, domPurify)
    \/ CleanupAfterStore
    \/ \E p \in {"DYNAMIC", "PREFETCH"}, html \in Pages : PutBody(p, "/a", html)

SpecSanitize == Init /\ [][NextSanitize]_vars

\* The stats queries of the page and of the worker, among submissions,
\* PREFETCH messages and puts.
NextStats ==
    \/ \E raw \in ChannelUrls, sub \in Submissions : ProcessLink(raw, sub)
    \/ \E e \in ExecKinds : SettleReturned(e)
    \/ \E e \in ExecKinds : LegsSettled(e)
    \/ \E e \in ExecKinds : StoreSettled(e)
    \/ \E raw \in ChannelUrls \ BadUrls : ForeignPrefetch(raw, CRITICAL_PRIORITY)
    \/ \E msg \in toWorker : HandlePrefetchRequest(msg)
    \/ \E item \in BagToSet(swPrefetching), outcome \in {"ok", "failed"}, subresources \in SubresourceLists :
          ExecutePrefetchSettled(item, outcome, subresources)
    \/ PutBody("DYNAMIC", "/a", {"text"})
    \/ GetCacheStats
    \/ \E messageId \in 1..MaxMessages : HandleCacheStatsRequest(messageId)

SpecStats == Init /\ [][NextStats]_vars

\* ------------------------------------------------- claims on coordination
\* The url is malformed, of another origin than the page's (https://self),
\* or of a scheme that is not allowed.
InvalidRequest(raw) ==
    \/ ~raw.wellFormed
    \/ raw.origin # "self"
    \/ raw.scheme # "https"

\* C22: a submission whose url is malformed, cross-origin or of a disallowed
\* scheme is rejected before admission.  processLink leaves the queue, the
\* semaphore and prefetchedUrls as they are and starts no execution; the
\* worker answers a PREFETCH message that carries such a url with a failure
\* response, its queue and its executions as they are, and no execution of
\* the worker is ever for such a message.
C22_InvalidRequestRejected ==
    [][/\ \A raw \in AdmitUrls, sub \in Submissions :
            InvalidRequest(raw) /\ ProcessLink(raw, sub)
            => UNCHANGED <<prefetchQueue, prefetchSemaphore, prefetchedUrls, executing>>
       /\ \A msg \in toWorker :
            InvalidRequest(msg.url) /\ HandlePrefetchRequest(msg)
            => /\ \E r \in toPage' \ toPage : r.messageId = msg.messageId /\ ~r.success
               /\ \A r \in toPage' : r.messageId = msg.messageId => ~r.success
               /\ UNCHANGED <<swQueue, swPrefetching, performanceCounter, caches>>
       /\ \A i \in DOMAIN swQueue' : ~InvalidRequest(swQueue'[i].url)
       /\ \A item \in BagToSet(swPrefetching') :
            item.messageId # NoMessageId => ~InvalidRequest(item.url)]_vars

\* Both messages were answered 'Invalid URL' while an execution of the page
\* is in flight; the worker started nothing.
C22_InvalidAnsweredWhileBusy ==
    /\ prefetchSemaphore > 0
    /\ Len(outcomes) = MaxMessages
    /\ toWorker = {}
    /\ \A id \in 1..MaxMessages : Response(id, FALSE, "Invalid URL") \in toPage
    /\ swPrefetching = EmptyBag
    /\ performanceCounter = 0

\* The requests of the instance that are not resolved
Unresolved == { id \in DOMAIN outcomes : outcomes[id] = "pending" }

\* C23: a serviceWorkerPrefetch that no response reaches in time resolves as
\* a timeout failure, and at that moment its pending entry, the response
\* listener, is removed: the pending set holds unresolved requests only.
C23_TimeoutPurgesPending ==
    [][/\ \A id \in timers :
            TimeoutFires(id) => outcomes'[id] = "timeout" /\ id \notin listeners'
       /\ listeners' \subseteq { id \in DOMAIN outcomes' : outcomes'[id] = "pending" }]_vars

\* C24: a response for a request that is resolved already (by a response or
\* by its timeout), and a response whose messageId is no pending request's,
\* changes neither the outcome of any request nor the pending set.
C24_LateResponseIsNoOp ==
    [][\A response \in toPage :
          MessageEvent(response) /\ response.messageId \notin Unresolved
          => UNCHANGED <<outcomes, listeners>>]_vars

\* C25: a response whose messageId is a pending request's resolves that
\* request, as a success or a failure by its flag, cancels its timeout and
\* removes it from the pending set; every other request is left as it is.
C25_ResponseResolvesItsRequest ==
    [][\A response \in toPage :
          MessageEvent(response) /\ response.messageId \in Unresolved
          => /\ outcomes' = [outcomes EXCEPT ![response.messageId] =
                                IF response.success THEN "resolved" ELSE "failed"]
             /\ timers' = timers \ {response.messageId}
             /\ listeners' = listeners \ {response.messageId}]_vars

\* The first request failed on its response while the second is pending,
\* its listener registered and its timeout armed.
C25_OneResolvedOtherPending ==
    /\ outcomes = <<"failed", "pending">>
    /\ listeners = {2}
    /\ timers = {2}
    /\ toPage = {}

\* C26: after destroy() returned no cleanup sweep runs, no timeout callback
\* runs and no prefetch is dispatched: the interval of the cleanup, the
\* timeouts of the pending prefetches and the waits on the channel are
\* cancelled, also when initVelocity replaces the instance.
C26_NothingRunsAfterDestroy ==
    [][destroyed
       => /\ ~ENABLED CleanupScheduled
          /\ \A messageId \in timers : ~TimeoutFires(messageId)
          /\ timers' \subseteq timers
          /\ \A e \in BagToSet(executing') : CopiesIn(e, executing') <= CopiesIn(e, executing)]_vars

\* ------------------------------------------------ claims on stored content
\* What sanitizeHtml can return
Sanitized == { sanitizeHtml(html, domPurify) : html \in Pages, domPurify \in BOOLEAN }

\* C27: every payload persisted to a cache tier, the store that storeInCache
\* writes and the partitions that safeCachePut writes, went through
\* sanitizeHtml: no content is stored as it was fetched.
C27_OnlySanitizedStored ==
    /\ \A url \in DOMAIN db : db[url].content \in Sanitized \cup {NoContent}
    /\ \A p \in Partitions : \A i \in DOMAIN caches[p] : caches[p][i].body \in Sanitized

\* ---------------------------------------------------- claims on the stats
\* What a stats query must leave as it is: the queues, the counters, the
\* partitions, the served urls and the metrics.
statsFrame ==
    <<prefetchQueue, prefetchSemaphore, executing, prefetchedUrls, db,
      swQueue, swPrefetching, performanceCounter, caches, cacheSize, cacheMetrics>>

\* C28: the stats queries, getCacheStats of the page and the handling of
\* GET_CACHE_STATS in the worker, are read-only: in any state they leave the
\* pending queues, the active counters, every partition, the served-url map
\* and the metrics unchanged.
C28_StatsReadOnly ==
    [][/\ GetCacheStats => UNCHANGED statsFrame
       /\ \A messageId \in 1..MaxMessages :
            HandleCacheStatsRequest(messageId)
            => /\ UNCHANGED statsFrame
               /\ toPage' = toPage \cup {StatsMessage(messageId)}]_vars

\* The worker answered a stats query while executions of the page and of
\* the worker are in flight and the partitions and the metrics hold entries.
C28_StatsAnsweredWhileBusy ==
    /\ \E messageId \in 1..MaxMessages : StatsMessage(messageId) \in toPage
    /\ prefetchSemaphore > 0
    /\ performanceCounter > 0
    /\ swPrefetching # EmptyBag
    /\ caches["DYNAMIC"] # <<>>
    /\ caches["PREFETCH"] # <<>>
    /\ DOMAIN cacheMetrics # {}

\* ------------------------------------------------ claims on the semaphore
\* C29: every dispatch of processQueue takes prefetchSemaphore up by one and
\* the settling of its prefetchResource, by whatever outcome, takes it down
\* by one, once: prefetchSemaphore is the number of executions dispatched
\* and not finished, never negative, and 0 when nothing is in flight.
C29_SemaphoreCountsExecutions ==
    /\ prefetchSemaphore = BagCardinality(executing)
    /\ prefetchSemaphore >= 0
    /\ executing = EmptyBag => prefetchSemaphore = 0

\* Every url was prefetched and nothing is in flight or pending any more,
\* after the long wait.
C29_AllSettled ==
    /\ \A url \in Paths : prefetchedUrls[url] # NoEntry
    /\ executing = EmptyBag
    /\ prefetchQueue = <<>>
    /\ prefetchSemaphore = 0
    /\ now >= RECENT_MS

\* ------------------------------------------- claims on concurrent puts
\* C30: concurrent puts and evictions on a partition are linearizable; an
\* entry that a completed put wrote is never deleted by an eviction that
\* selected its victims before that put: what an eviction deletes are the
\* entries it selected.
C30_NoLostUpdate ==
    [][\A t \in BagToSet(tasks) :
          VictimsDeleted(t)
          => \A i \in DOMAIN caches[t.p] :
                (\A j \in DOMAIN caches'[t.p] : caches'[t.p][j] # caches[t.p][i])
                => \E k \in DOMAIN t.victims : t.victims[k].entry = caches[t.p][i]]_vars

\* ------------------------------------------ claims on the worker's prefetch
\* The worker's PREFETCH handler under messages for two pages, each of which
\* names no subresource or two stylesheets and a script.
CeilingUrls == {RawUrl("https", "self", "/a", ""), RawUrl("https", "self", "/b", "")}

CriticalSubresources ==
    { {}, {RawUrl("https", "self", "/a", ""), RawUrl("https", "self", "/b", ""),
           RawUrl("https", "self", "/a", "#top")} }

NextCeiling ==
    \/ \E raw \in CeilingUrls, priority \in Priorities : ForeignPrefetch(raw, priority)
    \/ \E msg \in toWorker : HandlePrefetchRequest(msg)
    \/ \E item \in BagToSet(swPrefetching), outcome \in {"ok", "failed"},
          subresources \in CriticalSubresources :
          ExecutePrefetchSettled(item, outcome, subresources)

SpecCeiling == Init /\ [][NextCeiling]_vars

\* C31: the worker never runs more executePrefetch operations at a time than
\* the limit of processPrefetchQueue (3).
C31_WorkerCeiling == BagCardinality(swPrefetching) <= WORKER_BATCH

\* ------------------------------------------------ worker: fetchWithTimeout
\* One call of fetchWithTimeout(request, timeout), its retry included, as an
\* entry of `tasks`: pc is fetch (awaiting fetch, the abort timer armed),
\* backoff (awaiting the 1000 ms promise), returned or threw.  attempts
\* counts the fetch calls made, errors lists what the catch blocks caught,
\* waited is the time spent in the backoff, result what the call came to.

\* setTimeout(resolve, 1000)
BACKOFF_MS == 1000
\* retries = 1
DEFAULT_RETRIES == 1

FetchCall(timeout, retries) ==
    [pc |-> "fetch", timeout |-> timeout, retries |-> retries, attempts |-> 1,
     errors |-> <<>>, waited |-> 0, result |-> "none"]

\* The catch block that retries whatever the error is.
catchErrorRetryingAbort(c, name) ==
    IF c.retries > 0
    THEN [c EXCEPT !.pc = "backoff", !.errors = Append(@, name)]
    ELSE [c EXCEPT !.pc = "threw", !.errors = Append(@, name), !.result = name]

\* catch (error): clearTimeout; with a retry left and an error other than
\* AbortError the call waits for the backoff, else it throws the error.
catchError(c, name) ==
    IF c.retries > 0 /\ name # "AbortError"
    THEN [c EXCEPT !.pc = "backoff", !.errors = Append(@, name)]
    ELSE [c EXCEPT !.pc = "threw", !.errors = Append(@, name), !.result = name]

\* The timeouts the callers pass: TIMEOUTS.FETCH, STRATEGY_TIMEOUTS.NETWORK_FIRST
CallTimeouts == {FETCH_TIMEOUT, NETWORK_FIRST_TIMEOUT}

\* A strategy calls fetchWithTimeout(request, timeout): the timer is armed
\* and fetch called.
FetchWithTimeout(timeout) ==
    /\ requests < MaxRequests
    /\ requests' = requests + 1
    /\ tasks' = Started(FetchCall(timeout, DEFAULT_RETRIES))
    /\ UNCHANGED <<cacheSize, performanceCounter, cacheOps, caches, cacheMetrics, swNow>>
    /\ UNCHANGED <<lastResponse, otherOps>>
    /\ UNCHANGED fgVars
    /\ UNCHANGED dbVars
    /\ UNCHANGED coordVars

\* fetch resolves with a response of any status: clearTimeout, return.
FetchResolved(c) ==
    /\ c \in BagToSet(tasks)
    /\ c.pc = "fetch"
    /\ tasks' = Moved(c, [c EXCEPT !.pc = "returned", !.result = "response"])
    /\ UNCHANGED <<cacheSize, performanceCounter, cacheOps, caches, cacheMetrics, swNow>>
    /\ UNCHANGED <<lastResponse, otherOps, requests>>
    /\ UNCHANGED fgVars
    /\ UNCHANGED dbVars
    /\ UNCHANGED coordVars

\* fetch rejects: with a TypeError when the network fails, with an
\* AbortError when the timer has fired and aborted the controller.
FetchRejected(c, name) ==
    /\ c \in BagToSet(tasks)
    /\ c.pc = "fetch"
    /\ tasks' = Moved(c, catchError(c, name))
    /\ UNCHANGED <<cacheSize, performanceCounter, cacheOps, caches, cacheMetrics, swNow>>
    /\ UNCHANGED <<lastResponse, otherOps, requests>>
    /\ UNCHANGED fgVars
    /\ UNCHANGED dbVars
    /\ UNCHANGED coordVars

\* The backoff promise resolves: fetchWithTimeout(request, timeout,
\* retries - 1) arms a new timer and calls fetch again.
BackoffElapsed(c) ==
    /\ c \in BagToSet(tasks)
    /\ c.pc = "backoff"
    /\ tasks' = Moved(c, [c EXCEPT !.pc = "fetch", !.retries = @ - 1, !.attempts = @ + 1,
                                   !.waited = @ + BACKOFF_MS])
    /\ UNCHANGED <<cacheSize, performanceCounter, cacheOps, caches, cacheMetrics, swNow>>
    /\ UNCHANGED <<lastResponse, otherOps, requests>>
    /\ UNCHANGED fgVars
    /\ UNCHANGED dbVars
    /\ UNCHANGED coordVars

NextRetry ==
    \/ \E timeout \in CallTimeouts : FetchWithTimeout(timeout)
    \/ \E c \in BagToSet(tasks) : FetchResolved(c)
    \/ \E c \in BagToSet(tasks), name \in {"TypeError", "AbortError"} : FetchRejected(c, name)
    \/ \E c \in BagToSet(tasks) : BackoffElapsed(c)

SpecRetry == Init /\ [][NextRetry]_vars

\* C32: a call of fetchWithTimeout makes at most two attempts; it makes the
\* second one only after a first failure that is not an abort and a wait of
\* one second; a failure of the second attempt and an abort of either are
\* thrown to the caller, the abort as AbortError and nothing else as that.
C32_OneRetryNoneOnAbort ==
    \A c \in BagToSet(tasks) :
        /\ c.attempts <= 2
        /\ c.waited = BACKOFF_MS * (c.attempts - 1)
        /\ c.attempts = 2 => (c.errors # <<>> /\ c.errors[1] # "AbortError")
        /\ c.pc = "backoff" => (c.attempts = 1 /\ c.errors # <<"AbortError">>)
        /\ c.pc = "threw" =>
              /\ c.result = c.errors[Len(c.errors)]
              /\ c.result # "AbortError" => c.attempts = 2
        /\ c.pc = "returned" => c.result = "response"

\* A call whose two attempts failed has thrown, next to one that timed out
\* on its first attempt.
C32_SecondFailureSurfaced ==
    /\ \E c \in BagToSet(tasks) :
          c.pc = "threw" /\ c.errors = <<"TypeError", "TypeError">> /\ c.waited = BACKOFF_MS
    /\ \E c \in BagToSet(tasks) :
          c.pc = "threw" /\ c.errors = <<"AbortError">> /\ c.attempts = 1

\* ------------------------------------------- claims on the fetch strategies
\* The put that networkFirstStrategy awaits starts for the task in this step
NetworkFirstPutStarted(t) ==
    \E n \in BagToSet(tasks') :
        /\ n.chain = "networkFirst"
        /\ n.pc = "put"
        /\ n.request = t.request
        /\ CopiesIn(n, tasks') > CopiesIn(n, tasks)

\* C33: network-first hands a response to safeCachePut only when it has
\* status 200 and shouldCacheResponse holds (no no-store; for an api request
\* a path of the allow-pattern); a response of another status, a failure, a
\* no-store response or an api response outside the pattern leaves the
\* caches as they are, in the step that receives it and in the fallback.
C33_WritesOnlyCacheable ==
    [][\A t \in BagToSet(tasks) :
          t.chain = "networkFirst"
          => /\ \A outcome \in Outcomes :
                   FetchSettled(t, outcome)
                   => /\ UNCHANGED caches
                      /\ NetworkFirstPutStarted(t)
                            => /\ outcome = "ok"
                               /\ t.isAPI => t.request.public
             /\ FallbackMatched(t) => UNCHANGED caches
             /\ \A accepted \in BOOLEAN :
                   (PutSettled(t, accepted) /\ caches'[t.p] # caches[t.p])
                   => /\ t.status = 200
                      /\ t.isAPI => t.request.public]_vars

\* C33 witness: network-first has returned the status 200 of an api request
\* outside the pattern and the api partition holds nothing for it, while it
\* holds what a request inside the pattern wrote.
C33_PrivateApiNotWritten ==
    /\ lastResponse.url = "/api/users"
    /\ lastResponse.via = "networkFirst"
    /\ lastResponse.source = "network"
    /\ lastResponse.status = 200
    /\ cacheMatch(caches["API"], "/api/users") = <<>>
    /\ \E i \in DOMAIN caches["API"] :
          /\ caches["API"][i].url = "/api/public/info"
          /\ caches["API"][i].body >= START_MINUTES

\* ------------------------------------ foreground: storeInCache by its awaits
\* A storeInCache call in progress: awaiting fetchAndSanitizeContent (pc
\* content), or with its entry built and its readwrite transaction created
\* (pc get).  IndexedDB runs the readwrite transactions on one store one
\* after the other in the order of their creation, and the put is requested
\* in the onsuccess of the get, so each get and put run with no other
\* transaction between them.
StoreCall(url, pc, timestamp, lastAccessed) ==
    [url |-> url, pc |-> pc, timestamp |-> timestamp, lastAccessed |-> lastAccessed]

RemoveAt(seq, i) == SubSeq(seq, 1, i - 1) \o SubSeq(seq, i + 1, Len(seq))

\* storeInCache(url, trigger, priority) to its await of the content
StoreBegins(url) ==
    /\ stores + Len(storing) < MaxStores
    /\ storing' = Append(storing, StoreCall(url, "content", 0, 0))
    /\ UNCHANGED <<db, storeName, cleanups, stores, urlAnalytics, legResults>>
    /\ UNCHANGED fgVars
    /\ UNCHANGED swVars
    /\ UNCHANGED coordVars

\* fetchAndSanitizeContent has settled: cacheEntry is built, timestamp and
\* lastAccessed each from a Date.now() of its own (the second `later`
\* milliseconds after the first), the transaction created and the get
\* requested.
ContentSettled(i, later) ==
    /\ i \in DOMAIN storing
    /\ storing[i].pc = "content"
    /\ storing' = Append(RemoveAt(storing, i),
                         StoreCall(storing[i].url, "get", now, now + later))
    /\ UNCHANGED <<db, storeName, cleanups, stores, urlAnalytics, legResults>>
    /\ UNCHANGED fgVars
    /\ UNCHANGED swVars
    /\ UNCHANGED coordVars

\* An onsuccess that puts the entry as it was built.
putEntryAsBuilt(store, call) ==
    MapSet(store, call.url,
           [timestamp |-> call.timestamp, lastAccessed |-> call.lastAccessed,
            accessCount |-> 1])

\* existingRequest.onsuccess: accessCount is 1, or one more than that of
\* the entry the get found; store.put(cacheEntry).
putEntry(store, call) ==
    MapSet(store, call.url,
           [timestamp |-> call.timestamp, lastAccessed |-> call.lastAccessed,
            accessCount |-> IF call.url \in DOMAIN store
                            THEN store[call.url].accessCount + 1 ELSE 1])

\* The oldest transaction runs: the get, then the put, which succeeds
\* (storeInCache goes on to cleanupOldEntries) or fails (the promise is
\* rejected and the error logged).
TransactionSettled(accepted) ==
    /\ \E i \in DOMAIN storing : storing[i].pc = "get"
    /\ LET i == CHOOSE j \in DOMAIN storing :
                   /\ storing[j].pc = "get"
                   /\ \A k \in 1..(j - 1) : storing[k].pc # "get"
       IN  /\ storing' = RemoveAt(storing, i)
           /\ IF accepted
              THEN /\ db' = putEntry(db, storing[i])
                   /\ stores' = stores + 1
                   /\ cleanups' = cleanups + 1
              ELSE UNCHANGED <<db, stores, cleanups>>
    /\ UNCHANGED <<storeName, urlAnalytics, legResults>>
    /\ UNCHANGED fgVars
    /\ UNCHANGED swVars
    /\ UNCHANGED coordVars

NextOverlap ==
    \/ \E url \in Paths : StoreBegins(url)
    \/ \E i \in DOMAIN storing, later \in {0, 1} : ContentSettled(i, later)
    \/ \E accepted \in BOOLEAN : TransactionSettled(accepted)
    \/ CleanupAfterStore
    \/ Tick

SpecOverlap == Init /\ [][NextOverlap]_vars

\* The accessCount of the entry of a url, 0 without an entry
CountOf(store, url) == IF url \in DOMAIN store THEN store[url].accessCount ELSE 0

RECURSIVE SumOfCounts(_, _)
SumOfCounts(store, urls) ==
    IF urls = {} THEN 0
    ELSE LET url == CHOOSE u \in urls : TRUE
         IN  CountOf(store, url) + SumOfCounts(store, urls \ {url})

\* C34: every entry storeInCache writes has accessCount >= 1 and
\* lastAccessed >= timestamp; a write leaves the url's accessCount one above
\* what it was (1 for a new url), also when the calls overlap: no write is
\* lost, the counts add up to the number of puts made.
C34_CountedOncePerStore ==
    [][/\ \A url \in DOMAIN db' :
             /\ db'[url].accessCount >= 1
             /\ db'[url].lastAccessed >= db'[url].timestamp
       /\ \A url \in DOMAIN db' :
             (url \notin DOMAIN db \/ db'[url] # db[url])
             => db'[url].accessCount = CountOf(db, url) + 1
       /\ SumOfCounts(db', DOMAIN db') = stores']_vars

\* C34 witness: /a has an entry, and two more calls for /a have their
\* transactions pending together.
C34_OverlappingStores ==
    /\ "/a" \in DOMAIN db
    /\ db["/a"].accessCount = 1
    /\ db["/a"].lastAccessed > db["/a"].timestamp
    /\ Len(storing) = 2
    /\ \A i \in DOMAIN storing : storing[i].url = "/a" /\ storing[i].pc = "get"

\* -------------------------------------------------- claims on the metrics
\* startPeriodicCleanup: cutoff = Date.now() - 24 h, in minutes
RETENTION_MINUTES == 1440

\* The record of the url was last written to within the retention window
WithinRetention(url) ==
    /\ cacheMetrics[url].timed
    /\ (swNow - cacheMetrics[url].lastAccess) < RETENTION_MINUTES

\* C35: no step deletes the metrics record of a url while the record is
\* younger than the retention window of 24 hours.
C35_MetricsKeptUntilExpiry ==
    [][\A url \in DOMAIN cacheMetrics :
          WithinRetention(url) => url \in DOMAIN cacheMetrics']_vars

\* --------------------------------------------- foreground: event handlers
\* A link element: its href, whether it has the class priority-high, is
\* inside a nav element, is inside .main-content.
Link(href, high, nav, main) == [href |-> href, high |-> high, nav |-> nav, main |-> main]

Links ==
    { Link(RawUrl("https", "self", "/a", ""), FALSE, FALSE, FALSE),
      Link(RawUrl("https", "self", "/a", ""), FALSE, TRUE, TRUE),
      Link(RawUrl("https", "self", "/b", ""), TRUE, FALSE, FALSE) }

\* updateAnalytics adds at most MaxVisits visits in all.
MaxVisits == 2

\* DEFAULT_CONFIG.PRIORITY_WEIGHTS
PRIORITY_WEIGHTS == [click |-> 10, hover |-> 5, touch |-> 7, visible |-> 3]

\* handleIntersection: this.processLink(entry.target.href, 'visible', 1)
VISIBLE_PRIORITY == 1

\* calculatePriority(linkElement, trigger): the weight times 2, 1.5, 1.3 and
\* 1 + visitCount * 0.1 as they apply, in thousandths; Math.round rounds
\* halves up.
calculatePriority(link, trigger, analytics) ==
    LET weight     == PRIORITY_WEIGHTS[trigger]
        visitBoost == IF link.href \in DOMAIN analytics THEN 10 + analytics[link.href] ELSE 10
        thousands  == weight * (IF link.high THEN 2 ELSE 1) * (IF link.nav THEN 15 ELSE 10)
                             * (IF link.main THEN 13 ELSE 10) * visitBoost
    IN  ((2 * thousands) + 1000) \div 2000

\* updateAnalytics(url): visitCount++ on the existing or a new object
updateAnalytics(analytics, href) ==
    MapSet(analytics, href, IF href \in DOMAIN analytics THEN analytics[href] + 1 ELSE 1)

\* The sum of the visit counts
RECURSIVE Visits(_, _)
Visits(analytics, hrefs) ==
    IF hrefs = {} THEN 0
    ELSE LET href == CHOOSE h \in hrefs : TRUE
         IN  analytics[href] + Visits(analytics, hrefs \ {href})

\* The IntersectionObserver reports the link as visible.
HandleIntersection(link) ==
    /\ processLink(link.href, [trigger |-> "visible", priority |-> VISIBLE_PRIORITY])
    /\ UNCHANGED dbVars

HandleTouchStart(link) ==
    /\ processLink(link.href, [trigger |-> "touch",
                               priority |-> calculatePriority(link, "touch", urlAnalytics)])
    /\ UNCHANGED dbVars

HandleMouseOver(link) ==
    /\ processLink(link.href, [trigger |-> "hover",
                               priority |-> calculatePriority(link, "hover", urlAnalytics)])
    /\ UNCHANGED dbVars

\* handleClick: processLink, then updateAnalytics(link.href)
HandleClick(link) ==
    /\ Visits(urlAnalytics, DOMAIN urlAnalytics) < MaxVisits
    /\ processLink(link.href, [trigger |-> "click",
                               priority |-> calculatePriority(link, "click", urlAnalytics)])
    /\ urlAnalytics' = updateAnalytics(urlAnalytics, link.href)
    /\ UNCHANGED <<db, storeName, cleanups, stores, storing, legResults>>

NextPriority ==
    \/ \E link \in Links : HandleIntersection(link)
    \/ \E link \in Links : HandleTouchStart(link)
    \/ \E link \in Links : HandleMouseOver(link)
    \/ \E link \in Links : HandleClick(link)
    \/ \E e \in ExecKinds : SettleReturned(e)
    \/ \E e \in ExecKinds : LegsSettled(e)
    \/ \E e \in ExecKinds : StoreSettled(e)

SpecPriority == Init /\ [][NextPriority]_vars

\* ------------------------------------------------ claims on the priority
\* The event handler of the trigger runs for the link in this step
Handles(link, trigger) ==
    CASE trigger = "visible" -> HandleIntersection(link)
      [] trigger = "touch"   -> HandleTouchStart(link)
      [] trigger = "hover"   -> HandleMouseOver(link)
      [] trigger = "click"   -> HandleClick(link)

\* The requests of the trigger for the url that this step puts on the queue
\* or dispatches from it
Enqueued(url, trigger) ==
    { prefetchQueue'[i] : i \in { j \in DOMAIN prefetchQueue' :
                                    /\ prefetchQueue'[j].url = url
                                    /\ prefetchQueue'[j].trigger = trigger
                                    /\ \A k \in DOMAIN prefetchQueue :
                                          prefetchQueue[k] # prefetchQueue'[j] } }
    \cup { e \in BagToSet(executing') :
              /\ e.url = url
              /\ e.trigger = trigger
              /\ CopiesIn(e, executing') > CopiesIn(e, executing) }

\* C36: the priority of every request a handler enqueues is
\* round(weight[trigger] * boosts) for the link and its visit count, the
\* weights being click 10, touch 7, hover 5, visible 3.
C36_PriorityByFormula ==
    [][\A link \in Links, trigger \in DOMAIN PRIORITY_WEIGHTS :
          Handles(link, trigger)
          => \A request \in Enqueued(sanitizeUrl(link.href), trigger) :
                request.priority = calculatePriority(link, trigger, urlAnalytics)]_vars

\* ------------------------------------------ claims on the performance budget
\* The safeCachePut executions of `tasks` between their performanceCounter++
\* and their performanceCounter--
PutsInProgress ==
    LET puts == { t \in BagToSet(tasks) : t.pc = "put" }
    IN  BagCardinality([t \in puts |-> CopiesIn(t, tasks)])

\* C37: performanceCounter is the number of counted operations in progress:
\* the executePrefetch executions and the safeCachePut executions that passed
\* the budget check.  It is never negative and 0 when the worker is idle.
C37_CounterCountsOperations ==
    performanceCounter = (PutsInProgress + otherOps) + BagCardinality(swPrefetching)

\* -------------------------------------------- worker: queued PREFETCH items
\* A sync event with the tag velocity-cache-prefetch: processPrefetchQueue.
SyncPrefetch ==
    /\ swQueue # <<>>
    /\ LET d == processPrefetchQueue(swQueue, performanceCounter)
       IN  /\ swQueue' = d.queue
           /\ swPrefetching' = swPrefetching (+) SetToBag({ d.batch[i] : i \in DOMAIN d.batch })
           /\ performanceCounter' = performanceCounter + Len(d.batch)
    /\ UNCHANGED <<outcomes, listeners, timers, toWorker, toPage, destroyed>>
    /\ UNCHANGED <<cacheSize, cacheOps, caches, cacheMetrics, swNow>>
    /\ UNCHANGED fetchVars
    /\ UNCHANGED fgVars
    /\ UNCHANGED dbVars

\* PREFETCH messages for one page while other requests use up the budget
\* and release it.  Every message posted is delivered, every execution
\* settles, the puts of the other requests end, and the queue is processed
\* again and again for as long as it holds an item.
NextAnswer ==
    \/ \E priority \in Priorities : ForeignPrefetch(RawUrl("https", "self", "/a", ""), priority)
    \/ \E msg \in toWorker : HandlePrefetchRequest(msg)
    \/ \E item \in BagToSet(swPrefetching), outcome \in {"ok", "failed"} :
          ExecutePrefetchSettled(item, outcome, {})
    \/ OtherPutsBegin
    \/ OtherPutsEnd
    \/ SyncPrefetch

SpecAnswer ==
    /\ Init
    /\ [][NextAnswer]_vars
    /\ WF_vars(\E msg \in toWorker : HandlePrefetchRequest(msg))
    /\ WF_vars(\E item \in BagToSet(swPrefetching), outcome \in {"ok", "failed"} :
                  ExecutePrefetchSettled(item, outcome, {}))
    /\ WF_vars(OtherPutsEnd)
    /\ SF_vars(SyncPrefetch)

\* ------------------------------------------------ claims on the responses
\* The worker has received the PREFETCH message of the messageId
Received(messageId) ==
    /\ messageId <= Len(outcomes)
    /\ \A msg \in toWorker : msg.messageId # messageId

\* The worker has broadcast a response with the messageId
Answered(messageId) == \E response \in toPage : response.messageId = messageId

\* C38: every PREFETCH message of a valid url that the worker receives is
\* eventually answered with a response that carries its messageId.
C38_EveryMessageAnswered ==
    \A messageId \in 1..MaxMessages : Received(messageId) ~> Answered(messageId)

\* ------------------------------------------- worker: SpecStored
\* Every path of the worker that reaches safeCachePut, side by side: the
\* three strategies, updateCacheInBackground and executePrefetch, on caches
\* that start empty or hold what the worker, or the release before it,
\* cached a minute ago.
StoredRequests ==
    { request \in Requests :
         /\ request.url \in {"/app.css", "/api/public/info", "/page"}
         /\ ~request.prefetchSource }

StoredStartCaches ==
    { [p \in Partitions |-> <<>>],
      [STATIC   |-> <<enhancedResponse("/app.css", START_MINUTES - 1, START_MINUTES - 1)>>,
       DYNAMIC  |-> <<enhancedResponse("/page", START_MINUTES - 1, START_MINUTES - 1)>>,
       PREFETCH |-> <<>>,
       API      |-> <<enhancedResponse("/api/public/info", START_MINUTES - 1, START_MINUTES - 1)>>],
      [STATIC   |-> <<LegacyEntry("/app.css")>>,
       DYNAMIC  |-> <<>>,
       PREFETCH |-> <<>>,
       API      |-> <<>>] }

InitStored ==
    /\ InitForeground
    /\ InitFetchIdle
    /\ caches \in StoredStartCaches
    /\ cacheSize = [p \in Partitions |-> Len(caches[p])]
    /\ cacheMetrics = EmptyMap
    /\ performanceCounter = 0
    /\ cacheOps = 0
    /\ swNow = START_MINUTES

NextStored ==
    \/ \E request \in StoredRequests : FetchEvent(request)
    \/ \E t \in BagToSet(tasks) : CacheMatched(t)
    \/ \E t \in BagToSet(tasks), outcome \in Outcomes : FetchSettled(t, outcome)
    \/ \E t \in BagToSet(tasks), accepted \in BOOLEAN : PutSettled(t, accepted)
    \/ \E t \in BagToSet(tasks) : FallbackMatched(t)
    \/ \E priority \in Priorities : ForeignPrefetch(RawUrl("https", "self", "/a", ""), priority)
    \/ \E msg \in toWorker : HandlePrefetchRequest(msg)
    \/ \E item \in BagToSet(swPrefetching), outcome \in Outcomes :
          ExecutePrefetchSettled(item, outcome, {})
    \/ SwTick

SpecStored == InitStored /\ [][NextStored]_vars

\* the entries of `partition` that the step has put
PutByStep(partition) ==
    { caches'[partition][i] : i \in DOMAIN caches'[partition] }
        \ { caches[partition][i] : i \in DOMAIN caches[partition] }

\* `entry` is what a safeCachePut of this step has written from the status
\* 200 response a strategy or updateCacheInBackground holds
PutFromStrategy(partition, entry) ==
    \E t \in BagToSet(tasks) :
       /\ t.pc = "put"
       /\ t.p = partition
       /\ t.status = 200
       /\ t.request.url = entry.url
       /\ t.body = entry.body
       /\ tasks' = Finished(t)

\* `entry` is what the safeCachePut of an executePrefetch that has finished
\* in this step has written, its fetch answered with status 200
PutFromPrefetch(partition, entry) ==
    /\ partition = "PREFETCH"
    /\ \E item \in BagToSet(swPrefetching) :
          /\ KeyOf(item.url) = entry.url
          /\ CopiesIn(item, swPrefetching') < CopiesIn(item, swPrefetching)
          /\ Response(item.messageId, TRUE, "Prefetched successfully") \in toPage'

NativeResults == {"loaded", "error", "timeout"}

\* serviceWorkerPrefetch: resolved or rejected on a response, rejected by its
\* timer; "absent" when the channel is not ready and the leg is not started
WorkerResults == {"resolved", "failed", "timeout", "absent"}

LegUrls == {RawUrl("https", "self", "/a", "")}

\* A prefetchResource that awaits its legs with Promise.all.
promiseAll(native, worker) ==
    IF native = "loaded" /\ worker \in {"resolved", "absent"} THEN "fulfilled" ELSE "rejected"

\* await Promise.allSettled(promises): fulfilled whatever the legs came to
allSettled(native, worker) == "fulfilled"

\* prefetchResource after its await of the legs: prefetchedUrls.set, then
\* storeInCache starts; an await that throws goes to the catch, the
\* execution ends and its .finally reaction releases the slot.
LegsSettledWith(e, native, worker) ==
    /\ ~MicrotaskDue
    /\ e \in BagToSet(executing)
    /\ e.phase = "prefetching"
    /\ legResults' = (e.url :> [priority |-> e.priority, native |-> native, worker |-> worker])
                     @@ legResults
    /\ IF allSettled(native, worker) = "fulfilled"
       THEN /\ prefetchedUrls' = [prefetchedUrls EXCEPT ![e.url] =
                                    [timestamp |-> now, trigger |-> e.trigger,
                                     priority |-> e.priority]]
            /\ executing' = (executing (-) SetToBag({e}))
                            (+) SetToBag({Exec(e.url, e.trigger, e.priority, "storing")})
            /\ UNCHANGED prefetchSemaphore
       ELSE /\ executing' = executing (-) SetToBag({e})
            /\ prefetchSemaphore' = prefetchSemaphore - 1
            /\ UNCHANGED prefetchedUrls
    /\ UNCHANGED <<prefetchQueue, isPaused, now>>
    /\ UNCHANGED <<db, storeName, cleanups, stores, storing, urlAnalytics>>
    /\ UNCHANGED swVars
    /\ UNCHANGED coordVars

NextLegs ==
    \/ \E raw \in LegUrls, sub \in Submissions : ProcessLink(raw, sub)
    \/ \E e \in ExecKinds : SettleReturned(e)
    \/ \E e \in ExecKinds, native \in NativeResults, worker \in WorkerResults :
          LegsSettledWith(e, native, worker)
    \/ \E e \in ExecKinds : StoreSettled(e)
    \/ Tick
    \/ LongWait

SpecLegs == Init /\ [][NextLegs]_vars

\* both legs of the execution that recorded `url` last failed or timed out
LegsAllFailed(url) ==
    /\ url \in DOMAIN legResults
    /\ legResults[url].native \in {"error", "timeout"}
    /\ legResults[url].worker \in {"failed", "timeout"}

\* C40: an execution that passed the 60 s check and whose legs have settled
\* records its url in prefetchedUrls with its own trigger and priority and
\* the time of the settling, whatever the legs came to; and a processLink
\* for a url whose last execution recorded it, its legs failed or not, with
\* a priority equal to or lower than that execution's, queues and
\* dispatches nothing.
C40_RecordedWhateverTheLegs ==
    [][/\ \A e \in ExecKinds :
             (e.phase = "prefetching" /\ CopiesIn(e, executing') < CopiesIn(e, executing))
                => prefetchedUrls'[e.url] = [timestamp |-> now, trigger |-> e.trigger,
                                             priority |-> e.priority]
       /\ \A raw \in LegUrls, sub \in Submissions :
             (/\ ProcessLink(raw, sub)
              /\ sanitizeUrl(raw) \in DOMAIN legResults
              /\ sub.priority <= legResults[sanitizeUrl(raw)].priority)
                => UNCHANGED <<prefetchQueue, executing, prefetchSemaphore>>]_vars

\* C40 witness: both legs of the hover prefetch of /a failed, /a is recorded
\* with priority 5, more than 60 s have passed since, and nothing is queued
\* or executing: a hover on /a is dropped here.
C40_FailedLegsStillServed ==
    /\ LegsAllFailed("/a")
    /\ legResults["/a"].priority = 5
    /\ prefetchedUrls["/a"].priority = 5
    /\ now - prefetchedUrls["/a"].timestamp >= RECENT_MS
    /\ prefetchQueue = <<>>
    /\ executing = EmptyBag
    /\ Admission(RawUrl("https", "self", "/a", ""), 5, prefetchedUrls) = "superseded"

=============================================================================
